---------------------------- MODULE Spec2Model ----------------------------
(***************************************************************************)
(* A model of modlem (sulix/modlem), the Lemmings graphics importer and    *)
(* exporter: the DAT section codec (src/src/dat_section.rs) and the planar *)
(* bitmap engine (src/src/planar_bmp.rs).                                  *)
(*                                                                         *)
(* Conventions.  Rust vectors are 0-indexed, TLA+ sequences 1-indexed: the *)
(* byte v[k] of the source is v[k + 1] here.  Option<usize>::None is -1.   *)
(* An arithmetic overflow panics in a debug build and wraps in a release   *)
(* build; where the two differ the model offers both outcomes.             *)
(***************************************************************************)
EXTENDS Integers, Sequences, FiniteSets, TLC

(***************************************************************************)
(* Bounds of the model.                                                    *)
(***************************************************************************)
\* Longest uncompressed buffer handed to from_data.
MaxLen == 4
\* Number of distinct byte values an uncompressed buffer is drawn from.
NumByteValues == 3
\* Longest payload of a section file found on disk.
MaxPayload == 3
\* Number of distinct byte values such a payload is drawn from.
NumFileByteValues == 2
\* Most single-bit reads followed on a section read from disk.
MaxReads == 18
MaxWidth == 9
MaxHeight == 2
NumPatterns == 2
NumPixelValues == 3
\* Most blits into one destination bitmap.
MaxBlits == 2

\* The longest script text.
MaxTextLen == 4

\* The longest pending literal run.
MaxRun == 275

\* The longest input of the step-wise encoder.
MaxRunLen == 8

\* The tallest bitmap of a directive, and the most directives.
MaxEntryHeight == 2
MaxEntries == 2

\* The most directives of a script.
MaxDirectives == 2

\* The palette blocks: how many first bytes and how many steps between bytes.
NumPalBases == 2
NumPalSteps == 4

\* The most sections in a .dat file, and the longest section in it.
MaxSections == 3
MaxSectionLen == 2

(***************************************************************************)
(* Program constants.                                                      *)
(***************************************************************************)
BitsPerByte == 8
HeaderSize == 10
SearchWindow == 4096
MaxMatchLen == 256
Match2Window == 256
Match3Window == 512
Match4Window == 1024
MaxLiteral == 265
ShortLiteralMax == 8
MaxPlanes == 8
BITMAP_SIGNATURE == 19778
BI_RGB == 0
FileHeaderSize == 14
InfoHeaderSize == 40

(***************************************************************************)
(* TLC's integers are 32-bit signed and cannot hold 2^32.  The sizes and   *)
(* indices of the model are far below 2^30, so a u32 or usize keeps its    *)
(* value, except one that wrapped below zero: the real value 2^32 + k      *)
(* (k < 0) is kept as Wrap + k.  The embedding keeps order, sums and       *)
(* differences, and Wrap + k is beyond every vector length.                *)
(***************************************************************************)
Wrap == 2^30

\* a - b on u32 in a release build (wrapping).
WrappingSub(a, b) == IF a - b < 0 THEN Wrap + (a - b) ELSE a - b

(***************************************************************************)
(* Integer helpers standing for Rust's operators on unsigned integers.     *)
(***************************************************************************)
Min(a, b) == IF a <= b THEN a ELSE b

RECURSIVE Pow2(_)
Pow2(k) == IF k = 0 THEN 1 ELSE 2 * Pow2(k - 1)

\* (v >> k) & 1
BitOf(v, k) == (v \div Pow2(k)) % 2

\* a ^ b on bytes
RECURSIVE XorBits(_, _, _)
XorBits(a, b, k) ==
    IF k = 0 THEN 0
    ELSE (((a % 2) + (b % 2)) % 2) + (2 * XorBits(a \div 2, b \div 2, k - 1))

Xor8(a, b) == XorBits(a, b, BitsPerByte)

\* a & b and a | b on the low k bits.
RECURSIVE AndBits(_, _, _)
AndBits(a, b, k) ==
    IF k = 0 THEN 0
    ELSE ((a % 2) * (b % 2)) + (2 * AndBits(a \div 2, b \div 2, k - 1))

And8(a, b) == AndBits(a, b, BitsPerByte)

RECURSIVE OrBits(_, _, _)
OrBits(a, b, k) ==
    IF k = 0 THEN 0
    ELSE (IF (a % 2) + (b % 2) > 0 THEN 1 ELSE 0) + (2 * OrBits(a \div 2, b \div 2, k - 1))

Or8(a, b) == OrBits(a, b, BitsPerByte)

\* a * b on u8: the product when it fits, else a panic (overflow checks on)
\* or the product modulo 256 (overflow checks off).
MulU8(a, b) ==
    IF a * b < 256 THEN {[ok |-> TRUE, val |-> a * b]}
    ELSE {[ok |-> FALSE, val |-> 0], [ok |-> TRUE, val |-> (a * b) % 256]}

\* A checksum that adds the bytes instead of XOR-ing them.
RECURSIVE XorFoldSum(_, _)
XorFoldSum(bytes, acc) ==
    IF bytes = <<>> THEN acc
    ELSE XorFoldSum(Tail(bytes), (acc + Head(bytes)) % 256)

\* The fold `for b in &comp_data { checksum ^= b }`, started from acc.
RECURSIVE XorFold(_, _)
XorFold(bytes, acc) ==
    IF bytes = <<>> THEN acc
    ELSE XorFold(Tail(bytes), Xor8(acc, Head(bytes)))

SeqOfLen(S, n) == [1..n -> S]

SeqsUpTo(S, n) == UNION {SeqOfLen(S, k) : k \in 0..n}

Zeros(n) == [k \in 1..n |-> 0]

(***************************************************************************)
(* binary_io: big-endian 32-bit integers.                                  *)
(***************************************************************************)
write_be32(v) ==
    << (v \div 16777216) % 256, (v \div 65536) % 256, (v \div 256) % 256, v % 256 >>

read_be32(b) == (b[1] * 16777216) + (b[2] * 65536) + (b[3] * 256) + b[4]

write_le16(v) == << v % 256, (v \div 256) % 256 >>

write_le32(v) ==
    << v % 256, (v \div 256) % 256, (v \div 65536) % 256, (v \div 16777216) % 256 >>

read_le16(b) == (b[2] * 256) + b[1]

\* The top byte of a value read is below 128 in every file of the model.
read_le32(b) == (b[4] * 16777216) + (b[3] * 65536) + (b[2] * 256) + b[1]

(***************************************************************************)
(* DatSection: the bit writer.                                             *)
(*                                                                         *)
(* A section is a record with the struct's fields.  While from_data runs   *)
(* it carries three more fields that are not in the struct: `panicked`     *)
(* (the assert of add_bits failed), and the history fields `used` (the     *)
(* number of bits shifted into the byte at byte_offset since it was        *)
(* pushed) and `tokens` (the tokens emitted so far, in emission order).    *)
(***************************************************************************)
new_empty ==
    [ uncomp_size |-> 0, comp_size |-> 0, checksum |-> 0,
      num_bits_in_first_byte |-> 0, byte_offset |-> 0, bit_offset |-> 0,
      comp_data |-> <<>> ]

\* One iteration of the loop of add_bits: lines 45-59.
AddBit(s, bit) ==
    LET full == s.bit_offset + 1 > BitsPerByte
        bo   == IF full THEN s.byte_offset + 1 ELSE s.byte_offset
        cd   == IF full THEN Append(s.comp_data, 0) ELSE s.comp_data
        cur  == cd[bo + 1]
    IN  [s EXCEPT !.bit_offset = IF full THEN 1 ELSE s.bit_offset + 1,
                  !.byte_offset = bo,
                  !.comp_data = [cd EXCEPT ![bo + 1] = ((cur * 2) + bit) % 256],
                  !.used = IF full THEN 1 ELSE s.used + 1]

RECURSIVE AddBitsLoop(_, _, _)
AddBitsLoop(s, num_bits, bits) ==
    IF num_bits = 0
    THEN [s EXCEPT !.panicked = s.panicked \/ bits # 0]
    ELSE AddBitsLoop(AddBit(s, bits % 2), num_bits - 1, bits \div 2)

\* add_bits that shifts the bits in from the most significant one down.
RECURSIVE add_bitsMsbFirst(_, _, _)
add_bitsMsbFirst(s, num_bits, bits) ==
    IF num_bits = 0 THEN s
    ELSE add_bitsMsbFirst(AddBit(s, (bits \div (2 ^ (num_bits - 1))) % 2),
                          num_bits - 1, bits % (2 ^ (num_bits - 1)))

add_bits(s, num_bits, bits) == AddBitsLoop(s, num_bits, bits)

Emit(s, tok) == [s EXCEPT !.tokens = Append(s.tokens, tok)]

(***************************************************************************)
(* DatSection::from_data: the match search at position i.                  *)
(***************************************************************************)
\* The inner `while match_len < 256` loop: the final match_len at candidate j.
RECURSIVE MatchLen(_, _, _, _, _)
MatchLen(data, n, i, j, match_len) ==
    IF match_len >= MaxMatchLen THEN match_len
    ELSE IF j + match_len >= n THEN match_len
    ELSE IF data[j + match_len + 1] # data[i + match_len + 1] THEN match_len
    ELSE MatchLen(data, n, i, j, match_len + 1)

\* The `while j < i + 4096` loop, from candidate j with the running bests in m.
RECURSIVE SearchFrom(_, _, _, _, _)
SearchFrom(data, n, i, j, m) ==
    IF ~(j < i + SearchWindow) \/ j >= n THEN m
    ELSE
      LET ml == MatchLen(data, n, i, j, 0)
          m1 == [ longest_len  |-> IF ml >= m.longest_len THEN ml ELSE m.longest_len,
                  longest_off  |-> IF ml >= m.longest_len THEN j ELSE m.longest_off,
                  best_match_2 |-> IF ml >= 2 /\ j < i + Match2Window
                                   THEN j ELSE m.best_match_2,
                  best_match_3 |-> IF ml >= 3 /\ j < i + Match3Window
                                   THEN j ELSE m.best_match_3,
                  best_match_4 |-> IF ml >= 4 /\ j < i + Match4Window
                                   THEN j ELSE m.best_match_4 ]
      IN  SearchFrom(data, n, i, j + 1, m1)

Search(data, n, i) ==
    SearchFrom(data, n, i, i + 1,
               [ longest_len |-> 1, longest_off |-> 0,
                 best_match_2 |-> -1, best_match_3 |-> -1, best_match_4 |-> -1 ])

have_match(m) ==
    \/ m.longest_len > 4
    \/ m.best_match_4 # -1
    \/ m.best_match_3 # -1
    \/ m.best_match_2 # -1

(***************************************************************************)
(* DatSection::from_data: literals and matches.                            *)
(***************************************************************************)
\* `for b in 0..uncomp_len { add_bits(8, data[last_uncomp_off + b]) }`;
\* nothing is added once the assert of add_bits has failed.
RECURSIVE AddLiteralBytes(_, _, _, _, _)
AddLiteralBytes(s, data, off, b, uncomp_len) ==
    IF s.panicked \/ b >= uncomp_len THEN s
    ELSE AddLiteralBytes(add_bits(s, 8, data[off + b + 1]), data, off, b + 1, uncomp_len)

\* One literal token of uncomp_len bytes starting at last_uncomp_off.
EmitLiteral(s, data, last_uncomp_off, uncomp_len) ==
    LET s1 == AddLiteralBytes(s, data, last_uncomp_off, 0, uncomp_len)
    IN  IF uncomp_len <= ShortLiteralMax
        THEN Emit(add_bits(add_bits(s1, 3, uncomp_len - 1), 2, 0),
                  [kind |-> "lit_short", at |-> last_uncomp_off, len |-> uncomp_len, off |-> 0])
        ELSE Emit(add_bits(add_bits(s1, 8, uncomp_len - 9), 3, 7),
                  [kind |-> "lit_long", at |-> last_uncomp_off, len |-> uncomp_len, off |-> 0])

\* `while last_uncomp_off < i { ... }`
RECURSIVE FlushLiterals(_, _, _, _)
FlushLiterals(s, data, last_uncomp_off, i) ==
    IF ~(last_uncomp_off < i) THEN s
    ELSE LET uncomp_len == Min(i - last_uncomp_off, MaxLiteral)
         IN  FlushLiterals(EmitLiteral(s, data, last_uncomp_off, uncomp_len),
                           data, last_uncomp_off + uncomp_len, i)

MatchAdvanceOne(m) == 1

\* The length the encoder advances by after the match chosen from m.
MatchAdvance(m) ==
    IF m.longest_len > 4 THEN m.longest_len
    ELSE IF m.best_match_4 # -1 THEN 4
    ELSE IF m.best_match_3 # -1 THEN 3
    ELSE IF m.best_match_2 # -1 THEN 2
    ELSE 0

EmitMatchShortFirst(s, i, m) ==
    IF m.best_match_2 # -1 THEN
        Emit(add_bits(add_bits(s, 8, m.best_match_2 - i - 1), 2, 1),
             [kind |-> "match_2", at |-> i, len |-> 2, off |-> m.best_match_2 - i - 1])
    ELSE IF m.best_match_3 # -1 THEN
        Emit(add_bits(add_bits(s, 9, m.best_match_3 - i - 1), 3, 4),
             [kind |-> "match_3", at |-> i, len |-> 3, off |-> m.best_match_3 - i - 1])
    ELSE IF m.best_match_4 # -1 THEN
        Emit(add_bits(add_bits(s, 10, m.best_match_4 - i - 1), 3, 5),
             [kind |-> "match_4", at |-> i, len |-> 4, off |-> m.best_match_4 - i - 1])
    ELSE IF m.longest_len > 4 THEN
        Emit(add_bits(add_bits(add_bits(s, 12, m.longest_off - i - 1),
                               8, m.longest_len - 1), 3, 6),
             [kind |-> "match_long", at |-> i, len |-> m.longest_len,
              off |-> m.longest_off - i - 1])
    ELSE [s EXCEPT !.panicked = TRUE]

\* "Find the most efficient of the matches we have, and use it."
EmitMatch(s, i, m) ==
    IF m.longest_len > 4 THEN
        Emit(add_bits(add_bits(add_bits(s, 12, m.longest_off - i - 1),
                               8, m.longest_len - 1), 3, 6),
             [kind |-> "match_long", at |-> i, len |-> m.longest_len,
              off |-> m.longest_off - i - 1])
    ELSE IF m.best_match_4 # -1 THEN
        Emit(add_bits(add_bits(s, 10, m.best_match_4 - i - 1), 3, 5),
             [kind |-> "match_4", at |-> i, len |-> 4, off |-> m.best_match_4 - i - 1])
    ELSE IF m.best_match_3 # -1 THEN
        Emit(add_bits(add_bits(s, 9, m.best_match_3 - i - 1), 3, 4),
             [kind |-> "match_3", at |-> i, len |-> 3, off |-> m.best_match_3 - i - 1])
    ELSE IF m.best_match_2 # -1 THEN
        Emit(add_bits(add_bits(s, 8, m.best_match_2 - i - 1), 2, 1),
             [kind |-> "match_2", at |-> i, len |-> 2, off |-> m.best_match_2 - i - 1])
    ELSE [s EXCEPT !.panicked = TRUE]

\* The main loop `while i < uncomp_size`, then the final literal flush.
RECURSIVE EncodeFrom(_, _, _, _, _)
EncodeFrom(s, data, n, i, last_uncomp_off) ==
    IF ~(i < n) THEN FlushLiterals(s, data, last_uncomp_off, i)
    ELSE
      LET m == Search(data, n, i)
      IN  IF have_match(m)
          THEN EncodeFrom(EmitMatch(FlushLiterals(s, data, last_uncomp_off, i), i, m),
                          data, n, i + MatchAdvance(m), i + MatchAdvance(m))
          ELSE EncodeFrom(s, data, n, i + 1, last_uncomp_off)

\* The cursor from_data starts from: one zero byte pushed, bit_offset = 1.
InitialCursor(uncomp_size) ==
    [ uncomp_size |-> uncomp_size, comp_size |-> 0, checksum |-> 0,
      num_bits_in_first_byte |-> 0, byte_offset |-> 0, bit_offset |-> 1,
      comp_data |-> <<0>>,
      panicked |-> FALSE, used |-> 0, tokens |-> <<>> ]

\* "Write out the metadata for the section", then the checksum.
Metadata(s) ==
    [s EXCEPT !.comp_size = Len(s.comp_data) + HeaderSize,
              !.num_bits_in_first_byte = s.bit_offset % 256,
              !.checksum = XorFold(s.comp_data, s.checksum)]

from_data(data, uncomp_size) ==
    Metadata(EncodeFrom(InitialCursor(uncomp_size), data, uncomp_size, 0, 0))

\* The struct's own fields of a writer state.
StructOf(s) ==
    [ uncomp_size |-> s.uncomp_size, comp_size |-> s.comp_size,
      checksum |-> s.checksum, num_bits_in_first_byte |-> s.num_bits_in_first_byte,
      byte_offset |-> s.byte_offset, bit_offset |-> s.bit_offset,
      comp_data |-> s.comp_data ]

\* The section from_file returns for the stream that write puts out for the
\* writer state s once from_data has set its metadata: the read cursor is on
\* the last payload byte, which holds s.bit_offset (1..8) bits.
ReaderOf(s) ==
    [ uncomp_size |-> s.uncomp_size,
      comp_size |-> Len(s.comp_data) + HeaderSize,
      checksum |-> s.checksum,
      num_bits_in_first_byte |-> s.bit_offset % 256,
      byte_offset |-> Len(s.comp_data) - 1,
      bit_offset |-> 0,
      comp_data |-> s.comp_data ]


(***************************************************************************)
(* DatSection::write and DatSection::from_file.                            *)
(***************************************************************************)
\* The bytes write puts on the stream.
write(s) ==
    << s.num_bits_in_first_byte, s.checksum >>
      \o write_be32(s.uncomp_size) \o write_be32(s.comp_size) \o s.comp_data

\* The outcomes of from_file on the stream f: a set, because u32 arithmetic
\* that overflows panics in a debug build and wraps in a release build.
\*   [kind |-> "ok", sec |-> section]        Ok(DatSection)
\*   [kind |-> "checksum invalid", ...]      Err(InvalidData, "checksum invalid")
\*   [kind |-> "io", ...]                    Err of a short read
\*   [kind |-> "panic", ...]                 overflow check, or allocation failure
from_file(f) ==
    LET Fail(k) == [kind |-> k, sec |-> new_empty]
    IN
    IF Len(f) < HeaderSize THEN {Fail("io")}
    ELSE
      LET num_bits_in_first_byte == f[1]
          checksum    == f[2]
          uncomp_size == read_be32(SubSeq(f, 3, 6))
          comp_size   == read_be32(SubSeq(f, 7, 10))
      IN
      IF comp_size < HeaderSize
      THEN \* comp_size - 10 overflows: a panic, or a wrapped length of almost
           \* 2^32 bytes that the stream cannot supply.
           {Fail("panic"), Fail("io")}
      ELSE IF Len(f) - HeaderSize < comp_size - HeaderSize THEN {Fail("io")}
      ELSE
        LET comp_data == SubSeq(f, HeaderSize + 1, comp_size)
            data_checksum == XorFold(comp_data, 0)
            skip == IF num_bits_in_first_byte = 0 THEN 12 ELSE 11
            sec == [ uncomp_size |-> uncomp_size,
                     comp_size |-> IF num_bits_in_first_byte = 0
                                   THEN comp_size - 1 ELSE comp_size,
                     checksum |-> checksum,
                     num_bits_in_first_byte |-> IF num_bits_in_first_byte = 0
                                                THEN 8 ELSE num_bits_in_first_byte,
                     byte_offset |-> WrappingSub(comp_size, skip),
                     bit_offset |-> 0,
                     comp_data |-> comp_data ]
        IN
        IF data_checksum # checksum THEN {Fail("checksum invalid")}
        ELSE IF comp_size < skip
        THEN \* comp_size - 11 (or 12) overflows.
             {Fail("panic"), [kind |-> "ok", sec |-> sec]}
        ELSE {[kind |-> "ok", sec |-> sec]}

(***************************************************************************)
(* DatSection::read_bits.                                                  *)
(***************************************************************************)
\* A reader that takes 8 bits from every byte, the first one included.
ReadBitAlwaysEight(s) ==
    IF s.byte_offset >= Len(s.comp_data)
    THEN [sec |-> s, bit |-> 0, ok |-> FALSE]
    ELSE
      LET wrap == s.bit_offset + 1 >= 8
      IN  [ sec |-> [s EXCEPT !.bit_offset = IF wrap THEN 0 ELSE s.bit_offset + 1,
                              !.byte_offset = IF wrap /\ s.byte_offset # 0
                                              THEN s.byte_offset - 1
                                              ELSE s.byte_offset],
            bit |-> BitOf(s.comp_data[s.byte_offset + 1], s.bit_offset), ok |-> TRUE ]

\* One iteration of the loop of read_bits (lines 261-271) on section s:
\* the section after it, the bit read, and whether the byte index was valid.
ReadBit(s) ==
    IF s.byte_offset >= Len(s.comp_data)
    THEN [sec |-> s, bit |-> 0, ok |-> FALSE]
    ELSE
      LET cur_byte == s.comp_data[s.byte_offset + 1]
          bit == BitOf(cur_byte, s.bit_offset)
          bits_in_byte ==
              IF s.byte_offset = WrappingSub(s.comp_size, 11) /\ s.num_bits_in_first_byte # 0
              THEN s.num_bits_in_first_byte ELSE 8
          wrap == s.bit_offset + 1 >= bits_in_byte
      IN  [ sec |-> [s EXCEPT !.bit_offset = IF wrap THEN 0 ELSE s.bit_offset + 1,
                              !.byte_offset = IF wrap /\ s.byte_offset # 0
                                              THEN s.byte_offset - 1
                                              ELSE s.byte_offset],
            bit |-> bit, ok |-> TRUE ]

\* read_bits(bits), continuing from the value val: [sec, val, ok].
RECURSIVE ReadBitsLoop(_, _, _)
ReadBitsLoop(s, bits, val) ==
    IF bits = 0 THEN [sec |-> s, val |-> val, ok |-> TRUE]
    ELSE LET r == ReadBit(s)
         IN  IF ~r.ok THEN [sec |-> s, val |-> val, ok |-> FALSE]
             ELSE ReadBitsLoop(r.sec, bits - 1, (val * 2) + r.bit)

read_bits(s, bits) == ReadBitsLoop(s, bits, 0)

(***************************************************************************)
(* DatSection::decompress.                                                 *)
(*                                                                         *)
(* A decoder state d is [sec, output, i, ok, order, consumed]: the section  *)
(* with its read cursor, the output vector, the index i, whether no panic  *)
(* happened, and the histories `order` (the output indices written so far, *)
(* in order) and `consumed` (the commands read so far, in order, each with *)
(* its kind, its length and its raw offset).                               *)
(***************************************************************************)
Panic(d) == [d EXCEPT !.ok = FALSE]

\* The command just read, added to the history.
Consume(d, kind, len, off) ==
    [d EXCEPT !.consumed = Append(d.consumed, [kind |-> kind, len |-> len, off |-> off])]

\* output[at] = v, an out-of-range index being a panic.
Store(d, at, v) ==
    IF at < 0 \/ at >= Len(d.output) THEN Panic(d)
    ELSE [d EXCEPT !.output = [d.output EXCEPT ![at + 1] = v],
                   !.order = Append(d.order, at)]

\* `for _b in 0..len { i -= 1; output[i] = read_bits(8) }` of the two literals.
RECURSIVE ReadLiteral(_, _)
ReadLiteral(d, len) ==
    IF ~d.ok \/ len = 0 THEN d
    ELSE IF d.i = 0 THEN Panic(d)
    ELSE LET r == read_bits(d.sec, 8)
         IN  IF ~r.ok THEN Panic(d)
             ELSE ReadLiteral(Store([d EXCEPT !.sec = r.sec, !.i = d.i - 1],
                                    d.i - 1, r.val % 256),
                              len - 1)

\* `for _b in 0..len { i -= 1; output[i] = output[i + raw_off + 1] }`
RECURSIVE CopyLong(_, _, _)
CopyLong(d, len, raw_off) ==
    IF ~d.ok \/ len = 0 THEN d
    ELSE IF d.i = 0 THEN Panic(d)
    ELSE LET at == d.i - 1
             from == at + raw_off + 1
         IN  IF from >= Len(d.output) THEN Panic(d)
             ELSE CopyLong(Store([d EXCEPT !.i = at], at, d.output[from + 1]),
                           len - 1, raw_off)

\* The 2-, 3- and 4-byte references: output[i] = output[off], then count - 1
\* times `i -= 1; output[i] = output[off - k]`.
RECURSIVE CopyFixed(_, _, _, _)
CopyFixed(d, off, k, count) ==
    IF ~d.ok \/ k = count THEN d
    ELSE IF k > 0 /\ d.i = 0 THEN Panic(d)
    ELSE LET at == IF k > 0 THEN d.i - 1 ELSE d.i
         IN  IF off - k >= Len(d.output) \/ off - k < 0 THEN Panic(d)
             ELSE CopyFixed(Store([d EXCEPT !.i = at], at, d.output[off - k + 1]),
                            off, k + 1, count)

\* A fixed-length reference whose raw offset has `width` bits.
Reference(d, width, count) ==
    LET r == read_bits(d.sec, width)
        kind == IF count = 2 THEN "match_2" ELSE IF count = 3 THEN "match_3" ELSE "match_4"
    IN  IF ~r.ok THEN Panic(d)
        ELSE CopyFixed(Consume([d EXCEPT !.sec = r.sec], kind, count, r.val),
                       d.i + 1 + r.val, 0, count)

\* The command of one loop iteration: lines 282-363.
Command(d) ==
    LET b1 == read_bits(d.sec, 1)
    IN
    IF ~b1.ok THEN Panic(d)
    ELSE IF b1.val = 0 THEN
      LET b2 == read_bits(b1.sec, 1)
      IN  IF ~b2.ok THEN Panic(d)
          ELSE IF b2.val = 0 THEN
            LET l == read_bits(b2.sec, 3)
            IN  IF ~l.ok THEN Panic(d)
                ELSE ReadLiteral(Consume([d EXCEPT !.sec = l.sec, !.i = d.i + 1],
                                         "lit_short", l.val + 1, 0),
                                 l.val + 1)
          ELSE Reference([d EXCEPT !.sec = b2.sec], 8, 2)
    ELSE
      LET cmd == read_bits(b1.sec, 2)
      IN  IF ~cmd.ok THEN Panic(d)
          ELSE IF cmd.val = 0 THEN Reference([d EXCEPT !.sec = cmd.sec], 9, 3)
          ELSE IF cmd.val = 1 THEN Reference([d EXCEPT !.sec = cmd.sec], 10, 4)
          ELSE IF cmd.val = 2 THEN
            LET l == read_bits(cmd.sec, 8)
                o == read_bits(l.sec, 12)
            IN  IF ~l.ok \/ ~o.ok THEN Panic(d)
                ELSE CopyLong(Consume([d EXCEPT !.sec = o.sec, !.i = d.i + 1],
                                      "match_long", l.val + 1, o.val),
                              l.val + 1, o.val)
          ELSE
            LET l == read_bits(cmd.sec, 8)
            IN  IF ~l.ok THEN Panic(d)
                ELSE ReadLiteral(Consume([d EXCEPT !.sec = l.sec, !.i = d.i + 1],
                                         "lit_long", l.val + 9, 0),
                                 l.val + 9)

\* The states decompress can start its loop in.  uncomp_size - 1 overflows
\* for an empty section: a panic, or the wrapped index 2^32 - 1 (Wrap - 1).
DecompressEntry(s) ==
    LET d0 == [sec |-> s, output |-> Zeros(s.uncomp_size), i |-> 0,
               ok |-> TRUE, order |-> <<>>, consumed |-> <<>>]
    IN  IF s.uncomp_size = 0
        THEN {Panic(d0), [d0 EXCEPT !.i = WrappingSub(s.uncomp_size, 1)]}
        ELSE {[d0 EXCEPT !.i = s.uncomp_size - 1]}

\* `while i > 0 { command; if i == 0 { break; } i -= 1; }`
RECURSIVE DecompressLoop(_)
DecompressLoop(d) ==
    IF ~d.ok \/ ~(d.i > 0) THEN d
    ELSE LET d1 == Command(d)
         IN  IF ~d1.ok \/ d1.i = 0 THEN d1
             ELSE DecompressLoop([d1 EXCEPT !.i = d1.i - 1])

\* The outcomes of decompress on the section s.
decompress(s) == {DecompressLoop(d) : d \in DecompressEntry(s)}


(***************************************************************************)
(* PlanarBMP.  A bitmap is [width, height, pitch, planes, data]; the       *)
(* palette takes no part in the pixel operations and is left out.  An      *)
(* operation that can panic (an assert, an index or a slice out of range)  *)
(* returns [ok, ...] with ok = FALSE for the panic.                        *)
(***************************************************************************)
NoBmp == [width |-> 0, height |-> 0, pitch |-> 0, planes |-> 0, data |-> <<>>]

\* usize::div_ceil
div_ceil(a, b) == (a + b - 1) \div b

\* (n + 3) & !3
Align4(n) == ((n + 3) \div 4) * 4

new(width, height, planes) ==
    LET pitch == div_ceil(width, 8)
        plane_size == pitch * height
    IN  IF ~(planes <= MaxPlanes) THEN [ok |-> FALSE, bmp |-> NoBmp]
        ELSE [ok |-> TRUE,
              bmp |-> [width |-> width, height |-> height, pitch |-> pitch,
                       planes |-> planes, data |-> Zeros(plane_size * planes)]]

from_contiguous_data(d, width, height, planes) ==
    [ok |-> TRUE,
     bmp |-> [width |-> width, height |-> height, pitch |-> div_ceil(width, 8),
              planes |-> planes, data |-> d]]

\* The `for x in 0..width` loop of from_packed_data for 8 and 4 planes, from
\* pixel x of the scanline at `base`: the bytes pushed, the value left in
\* out_byte, and whether every index into the packed data was in range.
RECURSIVE PackedRowLoop(_, _, _, _, _, _, _, _)
PackedRowLoop(d, base, planes, plane, width, x, out_byte, acc) ==
    IF x = width THEN [ok |-> TRUE, bytes |-> acc, out_byte |-> out_byte]
    ELSE
      LET at == base + (IF planes = 8 THEN x ELSE x \div 2)
      IN  IF at >= Len(d) THEN [ok |-> FALSE, bytes |-> acc, out_byte |-> out_byte]
          ELSE
            LET px_byte == d[at + 1]
                mask_bit == IF planes = 8 THEN plane
                            ELSE IF x % 2 = 0 THEN plane + 4 ELSE plane
                px_val == IF BitOf(px_byte, mask_bit) # 0 THEN Pow2(7 - (x % 8)) ELSE 0
                ob == out_byte + px_val
            IN  IF x % 8 = 7
                THEN PackedRowLoop(d, base, planes, plane, width, x + 1, 0, Append(acc, ob))
                ELSE PackedRowLoop(d, base, planes, plane, width, x + 1, ob, acc)

\* The planar bytes of row y of one plane: the 8-plane arm pushes full bytes
\* only, the 4-plane arm also pushes the partial byte when the width is odd.
PackedRow(d, width, height, pitch, planes, plane, y) ==
    LET r == PackedRowLoop(d, (height - y - 1) * pitch, planes, plane, width, 0, 0, <<>>)
    IN  IF planes = 4 /\ width % 2 # 0
        THEN [ok |-> r.ok, bytes |-> Append(r.bytes, r.out_byte)]
        ELSE [ok |-> r.ok, bytes |-> r.bytes]

\* The 1-plane arm: the first scanline_size bytes of the scanline of row y.
PackedRow1(d, height, pitch, scanline_size, y) ==
    LET line_off == (height - y - 1) * pitch
    IN  IF line_off + scanline_size > Len(d) THEN [ok |-> FALSE, bytes |-> <<>>]
        ELSE [ok |-> TRUE, bytes |-> SubSeq(d, line_off + 1, line_off + scanline_size)]

\* The rows y, y + 1, ... of the planes plane, plane + 1, ... appended to acc.
RECURSIVE PackedPlanes(_, _, _, _, _, _, _, _)
PackedPlanes(d, width, height, pitch, planes, plane, y, acc) ==
    IF plane = (IF planes = 1 THEN 1 ELSE planes) THEN [ok |-> TRUE, bytes |-> acc]
    ELSE IF y = height
    THEN PackedPlanes(d, width, height, pitch, planes, plane + 1, 0, acc)
    ELSE LET r == IF planes = 1
                  THEN PackedRow1(d, height, pitch, (width * planes) \div 8, y)
                  ELSE PackedRow(d, width, height, pitch, planes, plane, y)
         IN  IF ~r.ok THEN [ok |-> FALSE, bytes |-> acc]
             ELSE PackedPlanes(d, width, height, pitch, planes, plane, y + 1,
                               acc \o r.bytes)

from_packed_data(d, width, height, planes) ==
    LET scanline_size == (width * planes) \div 8
        pitch == Align4(scanline_size)
    IN  IF planes \notin {8, 4, 1} THEN [ok |-> FALSE, bmp |-> NoBmp]
        ELSE LET r == PackedPlanes(d, width, height, pitch, planes, 0, 0, <<>>)
             IN  IF ~r.ok THEN [ok |-> FALSE, bmp |-> NoBmp]
                 ELSE [ok |-> TRUE,
                       bmp |-> [width |-> width, height |-> height,
                                pitch |-> width \div 8, planes |-> planes,
                                data |-> r.bytes]]

\* The `for xi in 0..w` loop of get_plane_data for row yi: full bytes only.
RECURSIVE PlaneRowLoop(_, _, _, _, _, _, _)
PlaneRowLoop(b, row_off, x, w, xi, out_byte, acc) ==
    IF xi = w THEN [ok |-> TRUE, bytes |-> acc]
    ELSE
      LET at == row_off + ((xi + x) \div 8)
      IN  IF at >= Len(b.data) THEN [ok |-> FALSE, bytes |-> acc]
          ELSE
            LET px_val == IF BitOf(b.data[at + 1], 7 - ((xi + x) % 8)) # 0
                          THEN Pow2(7 - (xi % 8)) ELSE 0
                ob == out_byte + px_val
            IN  IF xi % 8 = 7
                THEN PlaneRowLoop(b, row_off, x, w, xi + 1, 0, Append(acc, ob))
                ELSE PlaneRowLoop(b, row_off, x, w, xi + 1, ob, acc)

RECURSIVE PlaneRows(_, _, _, _, _, _, _, _)
PlaneRows(b, plane, x, y, w, h, yi, acc) ==
    IF yi = h THEN [ok |-> TRUE, bytes |-> acc]
    ELSE LET plane_size == b.pitch * b.height
             r == PlaneRowLoop(b, (plane * plane_size) + ((yi + y) * b.pitch), x, w, 0, 0, <<>>)
         IN  IF ~r.ok THEN [ok |-> FALSE, bytes |-> acc]
             ELSE PlaneRows(b, plane, x, y, w, h, yi + 1, acc \o r.bytes)

get_plane_data(b, plane, x, y, w, h) == PlaneRows(b, plane, x, y, w, h, 0, <<>>)

\* The loop of from_swizzle over plane_map: each source plane is copied into
\* a slice of plane_size bytes, which copy_from_slice refuses for any other
\* length.
RECURSIVE SwizzlePlanes(_, _, _, _)
SwizzlePlanes(b, plane_map, dst_plane, acc) ==
    IF dst_plane = Len(plane_map) THEN [ok |-> TRUE, bytes |-> acc]
    ELSE LET src_plane == plane_map[dst_plane + 1]
             plane_size == b.pitch * b.height
             r == get_plane_data(b, src_plane, 0, 0, b.width, b.height)
         IN  IF ~(src_plane < b.planes) \/ ~r.ok \/ Len(r.bytes) # plane_size
             THEN [ok |-> FALSE, bytes |-> acc]
             ELSE SwizzlePlanes(b, plane_map, dst_plane + 1, acc \o r.bytes)

from_swizzle(b, plane_map) ==
    LET r == SwizzlePlanes(b, plane_map, 0, <<>>)
    IN  IF ~r.ok THEN [ok |-> FALSE, bmp |-> NoBmp]
        ELSE [ok |-> TRUE,
              bmp |-> [width |-> b.width, height |-> b.height, pitch |-> b.pitch,
                       planes |-> Len(plane_map), data |-> r.bytes]]

\* The byte index of pixel (x, y) in `plane`.
PixelByte(b, plane, x, y) == (plane * (b.pitch * b.height)) + (y * b.pitch) + (x \div 8)

\* The loop of get_packed_pixel from `plane` on, with the value gathered so far.
RECURSIVE GetPixelLoop(_, _, _, _, _)
GetPixelLoop(b, x, y, plane, pixel_value) ==
    IF plane = b.planes THEN [ok |-> TRUE, val |-> pixel_value]
    ELSE LET at == PixelByte(b, plane, x, y)
         IN  IF at >= Len(b.data) THEN [ok |-> FALSE, val |-> pixel_value]
             ELSE GetPixelLoop(b, x, y, plane + 1,
                               pixel_value + (IF BitOf(b.data[at + 1], 7 - (x % 8)) # 0
                                              THEN Pow2(plane) ELSE 0))

get_packed_pixel(b, x, y) == GetPixelLoop(b, x, y, 0, 0)

\* The loop of pset from `plane` on.
RECURSIVE PsetLoop(_, _, _, _, _)
PsetLoop(b, x, y, value, plane) ==
    IF plane = b.planes THEN [ok |-> TRUE, bmp |-> b]
    ELSE LET at == PixelByte(b, plane, x, y)
         IN  IF at >= Len(b.data) THEN [ok |-> FALSE, bmp |-> b]
             ELSE
               LET byte == b.data[at + 1]
                   bit == 7 - (x % 8)
                   has == BitOf(byte, bit) # 0
                   nb == IF BitOf(value, plane) # 0
                         THEN (IF has THEN byte ELSE byte + Pow2(bit))
                         ELSE (IF has THEN byte - Pow2(bit) ELSE byte)
               IN  PsetLoop([b EXCEPT !.data = [b.data EXCEPT ![at + 1] = nb]],
                            x, y, value, plane + 1)

pset(b, x, y, value) == PsetLoop(b, x, y, value, 0)

\* The loops of blit over src_y and src_x, from source pixel k (row-major) on.
RECURSIVE BlitLoop(_, _, _, _, _)
BlitLoop(self, src, x, y, k) ==
    IF k = src.width * src.height THEN [ok |-> TRUE, bmp |-> self]
    ELSE LET src_x == k % src.width
             src_y == k \div src.width
             val == get_packed_pixel(src, src_x, src_y)
         IN  IF ~val.ok THEN [ok |-> FALSE, bmp |-> self]
             ELSE LET r == pset(self, src_x + x, src_y + y, val.val)
                  IN  IF ~r.ok THEN [ok |-> FALSE, bmp |-> r.bmp]
                      ELSE BlitLoop(r.bmp, src, x, y, k + 1)

blit(self, src, x, y) ==
    IF \/ ~(src.width + x <= self.width)
       \/ ~(src.height + y <= self.height)
       \/ src.planes # self.planes
    THEN [ok |-> FALSE, bmp |-> self]
    ELSE BlitLoop(self, src, x, y, 0)

\* to_pal8_data: one byte per pixel, top-down, row-major, from pixel k on.
RECURSIVE Pal8Loop(_, _, _)
Pal8Loop(b, k, acc) ==
    IF k = b.width * b.height THEN [ok |-> TRUE, bytes |-> acc]
    ELSE LET r == get_packed_pixel(b, k % b.width, k \div b.width)
         IN  IF ~r.ok THEN [ok |-> FALSE, bytes |-> acc]
             ELSE Pal8Loop(b, k + 1, Append(acc, r.val))

to_pal8_data(b) == Pal8Loop(b, 0, <<>>)

\* The `for px in line` loop of save_as_bpp, then the padding loop
\* `while byte_count < pitch`, for one scanline.
RECURSIVE SaveLineLoop(_, _, _, _, _, _, _)
SaveLineLoop(line, bpp, pitch, byte_buffer, current_bit, byte_count, acc) ==
    IF line # <<>> THEN
      LET bb == (byte_buffer * Pow2(bpp)) + Head(line)
          cb == current_bit + bpp
      IN  IF cb >= 8
          THEN SaveLineLoop(Tail(line), bpp, pitch, bb \div 256, cb - 8,
                            byte_count + 1, Append(acc, bb % 256))
          ELSE SaveLineLoop(Tail(line), bpp, pitch, bb, cb, byte_count, acc)
    ELSE IF byte_count < pitch
    THEN SaveLineLoop(line, bpp, pitch, byte_buffer \div 256, current_bit,
                      byte_count + 1, Append(acc, byte_buffer % 256))
    ELSE acc

\* `for line in data.rchunks(self.width)`: the lines last to first.
RECURSIVE SaveLines(_, _, _, _, _, _)
SaveLines(pal8, width, bpp, pitch, k, acc) ==
    IF k = 0 THEN acc
    ELSE SaveLines(pal8, width, bpp, pitch, k - 1,
                   acc \o SaveLineLoop(SubSeq(pal8, ((k - 1) * width) + 1, k * width),
                                       bpp, pitch, 0, 0, 0, <<>>))

\* The scanline bytes save_as_bpp writes after the headers and the palette.
save_as_bpp(b, bpp) ==
    LET pitch == Align4(div_ceil(b.width * bpp, 8))
        d == to_pal8_data(b)
    IN  IF ~d.ok THEN [ok |-> FALSE, bytes |-> <<>>]
        ELSE [ok |-> TRUE,
              bytes |-> SaveLines(d.bytes, b.width, bpp, pitch, b.height, <<>>)]

(***************************************************************************)
(* The script lexer.  A text is a sequence of characters; offsets count    *)
(* characters (every character of the model is one byte of UTF-8).         *)
(***************************************************************************)
\* Option<char>::None.
NoChar == ""

Letters ==
    { "a", "b", "c", "d", "e", "f", "g", "h", "i", "j", "k", "l", "m",
      "n", "o", "p", "q", "r", "s", "t", "u", "v", "w", "x", "y", "z",
      "A", "B", "C", "D", "E", "F", "G", "H", "I", "J", "K", "L", "M",
      "N", "O", "P", "Q", "R", "S", "T", "U", "V", "W", "X", "Y", "Z" }

\* The decimal digits, in order.
DigitChars == << "0", "1", "2", "3", "4", "5", "6", "7", "8", "9" >>

Digits == {DigitChars[k] : k \in 1..10}

is_numeric(c) == c \in Digits

is_alphanumeric(c) == c \in Letters \cup Digits

is_whitespace(c) == c \in {" ", "\n", "\t"}

\* Tokens; NoToken is Option<Token>::None.
NoToken == [kind |-> "None", text |-> <<>>, num |-> 0]

Ident(t) == [kind |-> "Ident", text |-> t, num |-> 0]

Symbol(c) == [kind |-> "Symbol", text |-> << c >>, num |-> 0]

StringLiteral(t) == [kind |-> "StringLiteral", text |-> t, num |-> 0]

NumericLiteral(n) == [kind |-> "NumericLiteral", text |-> <<>>, num |-> n]

peek_char(text, offset) ==
    IF offset < Len(text) THEN text[offset + 1] ELSE NoChar

\* eat_whitespace that eats at most one character.
eat_whitespaceOnce(text, offset) ==
    IF is_whitespace(peek_char(text, offset)) THEN offset + 1 ELSE offset

\* The offset after eat_whitespace.
RECURSIVE eat_whitespace(_, _)
eat_whitespace(text, offset) ==
    IF is_whitespace(peek_char(text, offset))
    THEN eat_whitespace(text, offset + 1)
    ELSE offset

\* The string literal loop, entered after the opening quote.
RECURSIVE StringLoop(_, _, _, _)
StringLoop(text, offset, line, str_val) ==
    LET str_c == peek_char(text, offset)
    IN  IF str_c = NoChar
        THEN [res |-> "panic", tok |-> NoToken, offset |-> offset, line |-> line]
        ELSE IF str_c = "\""
        THEN [res |-> "ok", tok |-> StringLiteral(str_val),
              offset |-> offset + 1, line |-> line]
        ELSE StringLoop(text, offset + 1, line, Append(str_val, str_c))

\* The offset after the digits of an integer literal.
RECURSIVE DigitsLoop(_, _)
DigitsLoop(text, offset) ==
    IF is_numeric(peek_char(text, offset))
    THEN DigitsLoop(text, offset + 1)
    ELSE offset

DigitValue(c) ==
    IF c \in Digits THEN (CHOOSE k \in 1..10 : DigitChars[k] = c) - 1 ELSE 0

RECURSIVE DigitsValue(_)
DigitsValue(ds) ==
    IF ds = <<>> THEN 0
    ELSE (10 * DigitsValue(SubSeq(ds, 1, Len(ds) - 1))) + DigitValue(ds[Len(ds)])

AllDigits(ds) == ds # <<>> /\ \A k \in 1..Len(ds) : is_numeric(ds[k])

\* str::parse::<i64> on the slices the lexer can hand it: an optional '-'
\* and then one or more digits, anything else is an error.
parse_i64(int_slice) ==
    IF int_slice # <<>> /\ int_slice[1] = "-"
    THEN [ok |-> AllDigits(Tail(int_slice)),
          val |-> 0 - DigitsValue(Tail(int_slice))]
    ELSE [ok |-> AllDigits(int_slice), val |-> DigitsValue(int_slice)]

\* The main loop of next_token, from start_offset on.
RECURSIVE TokenLoop(_, _, _, _)
TokenLoop(text, offset, line, start_offset) ==
    LET c == peek_char(text, offset)
        Finish(ln) ==
            [res |-> "ok",
             tok |-> IF start_offset = offset THEN NoToken
                     ELSE Ident(SubSeq(text, start_offset + 1, offset)),
             offset |-> offset, line |-> ln]
    IN  IF c = NoChar THEN Finish(line)
        ELSE IF c = "\"" THEN StringLoop(text, offset + 1, line, <<>>)
        ELSE IF is_numeric(c) \/ c = "-"
        THEN LET end == DigitsLoop(text, offset + 1)
                 int_val == parse_i64(SubSeq(text, start_offset + 1, end))
             IN  IF int_val.ok
                 THEN [res |-> "ok", tok |-> NumericLiteral(int_val.val),
                       offset |-> end, line |-> line]
                 ELSE [res |-> "panic", tok |-> NoToken,
                       offset |-> end, line |-> line]
        ELSE IF is_whitespace(c)
        THEN Finish(IF c = "\n" THEN line + 1 ELSE line)
        ELSE IF c = "/"
        THEN [res |-> "hang", tok |-> NoToken, offset |-> offset, line |-> line]
        ELSE IF ~is_alphanumeric(c) /\ c # "_"
        THEN IF offset # start_offset THEN Finish(line)
             ELSE [res |-> "ok", tok |-> Symbol(c),
                   offset |-> offset + 1, line |-> line]
        ELSE TokenLoop(text, offset + 1, line, start_offset)

next_token(text, offset, line) ==
    TokenLoop(text, eat_whitespace(text, offset), line,
              eat_whitespace(text, offset))

(***************************************************************************)
(* The callers' view of the lexer: lx is [text, offset, line, ok], with    *)
(* ok = FALSE once a call has panicked (or hung).  None of these calls     *)
(* looks at buffered_token.                                                *)
(***************************************************************************)
LexerOf(t) == [text |-> t, offset |-> 0, line |-> 1, ok |-> TRUE]

\* next_token: the lexer after the call and the token returned.
NextOf(lx) ==
    LET r == next_token(lx.text, lx.offset, lx.line)
    IN  [lx |-> [lx EXCEPT !.offset = r.offset, !.line = r.line,
                           !.ok = lx.ok /\ r.res = "ok"],
         tok |-> r.tok]

expect_symbol(lx, sym) ==
    LET r == NextOf(lx)
    IN  [r.lx EXCEPT !.ok = r.lx.ok /\ r.tok = Symbol(sym)]

expect_ident(lx, ident) ==
    LET r == NextOf(lx)
    IN  [r.lx EXCEPT !.ok = r.lx.ok /\ r.tok = Ident(ident)]

get_int_literal(lx) ==
    LET r == NextOf(lx)
    IN  [lx |-> [r.lx EXCEPT !.ok = r.lx.ok /\ r.tok.kind = "NumericLiteral"],
         val |-> r.tok.num]

get_string_literal(lx) ==
    LET r == NextOf(lx)
    IN  [lx |-> [r.lx EXCEPT !.ok = r.lx.ok /\ r.tok.kind = "StringLiteral"],
         val |-> r.tok.text]

\* `i64 as u8`
AsU8(v) == v % 256

\* `i64 as u16`, `usize as u16`
AsU16(v) == v % 65536

\* #[derive(Default)]: every field 0.
TerrainHeader_default ==
    [width |-> 0, height |-> 0, gfx_offset |-> 0, mask_offset |-> 0, unknown1 |-> 0]

ObjectHeader_default ==
    [animation_flags |-> 0, frame_start |-> 0, frame_end |-> 0, width |-> 0,
     height |-> 0, animation_frame_data_size |-> 0, mask_offset |-> 0,
     unknown0 |-> 0, unknown1 |-> 0, trigger_x |-> 0, trigger_y |-> 0,
     trigger_w |-> 0, trigger_h |-> 0, trigger_effect_id |-> 0,
     animation_offset |-> 0, preview_frame_offset |-> 0,
     preview_frame_number |-> 0, unknown2 |-> 0, trap_sound |-> 0]

(***************************************************************************)
(* The lexer as create_graphics_set uses it: lx as above, and `peeked`,    *)
(* the lexer's buffered_token (NoToken for None).                          *)
(***************************************************************************)
\* peek_token: asserts that nothing is buffered, then buffers what
\* next_token returns.
peek_token(lx, peeked) ==
    IF peeked # NoToken
    THEN [lx |-> [lx EXCEPT !.ok = FALSE], peeked |-> peeked, tok |-> NoToken]
    ELSE LET r == NextOf(lx)
         IN  [lx |-> r.lx, peeked |-> r.tok, tok |-> r.tok]

is_next_ident(lx, peeked, ident) ==
    LET r == peek_token(lx, peeked)
    IN  [lx |-> r.lx, peeked |-> r.peeked, val |-> r.tok = Ident(ident)]

\* `{}` of an unsigned integer.
RECURSIVE DecimalDigits(_)
DecimalDigits(v) ==
    IF v < 10 THEN << DigitChars[v + 1] >>
    ELSE Append(DecimalDigits(v \div 10), DigitChars[(v % 10) + 1])

\* Display for ObjectHeader.
ObjectHeader_fmt(h) ==
    << "{", "\n" >>
      \o << "\t", "a", "n", "i", "m", "a", "t", "i", "o", "n", "_", "f", "l", "a", "g", "s", " ", "=", " " >> \o DecimalDigits(h.animation_flags) \o << "\n" >>
      \o << "\t", "f", "r", "a", "m", "e", "s", " ", "=", " ", "(" >> \o DecimalDigits(h.frame_start) \o << "," >>
          \o DecimalDigits(h.frame_end) \o << ")", "\n" >>
      \o << "\t", "t", "r", "i", "g", "g", "e", "r", " ", "=", " ", "(" >> \o DecimalDigits(h.trigger_x) \o << "," >>
          \o DecimalDigits(h.trigger_y) \o << "," >>
          \o DecimalDigits(h.trigger_w) \o << "," >>
          \o DecimalDigits(h.trigger_h) \o << ")", "\n" >>
      \o << "\t", "t", "r", "i", "g", "g", "e", "r", "_", "e", "f", "f", "e", "c", "t", " ", "=", " " >> \o DecimalDigits(h.trigger_effect_id) \o << "\n" >>
      \o << "\t", "p", "r", "e", "v", "i", "e", "w", "_", "f", "r", "a", "m", "e", " ", "=", " " >> \o DecimalDigits(h.preview_frame_number) \o << "\n" >>
      \o << "\t", "t", "r", "a", "p", "_", "s", "o", "u", "n", "d", " ", "=", " " >> \o DecimalDigits(h.trap_sound) \o << "\n" >>
      \o << "}" >>

\* `lex.expect_symbol(a); x = lex.get_int_literal(); ...; lex.expect_symbol(z)`:
\* the integers of a parenthesised list of n, or of a single value (n = 0).
RECURSIVE IntList(_, _, _, _)
IntListNext(r, n, k, acc) == IntList(r.lx, n, k + 1, Append(acc, r.val))

IntListOne(r) == [lx |-> r.lx, vals |-> << r.val >>]

IntList(lx, n, k, acc) ==
    IF n = 0 THEN IntListOne(get_int_literal(lx))
    ELSE IF k > n THEN [lx |-> expect_symbol(lx, ")"), vals |-> acc]
    ELSE IntListNext(get_int_literal(expect_symbol(lx, IF k = 1 THEN "(" ELSE ",")),
                     n, k, acc)

\* One property of an object block, after its `=`.
StoreProperty(r, res, var) ==
    [lx |-> r.lx,
     res |-> IF var = << "a", "n", "i", "m", "a", "t", "i", "o", "n", "_", "f", "l", "a", "g", "s" >>
             THEN [res EXCEPT !.animation_flags = AsU16(r.vals[1])]
             ELSE IF var = << "f", "r", "a", "m", "e", "s" >>
             THEN [res EXCEPT !.frame_start = AsU8(r.vals[1]),
                              !.frame_end = AsU8(r.vals[2])]
             ELSE IF var = << "t", "r", "i", "g", "g", "e", "r" >>
             THEN [res EXCEPT !.trigger_x = AsU16(r.vals[1]),
                              !.trigger_y = AsU16(r.vals[2]),
                              !.trigger_w = AsU8(r.vals[3]),
                              !.trigger_h = AsU8(r.vals[4])]
             ELSE IF var = << "t", "r", "i", "g", "g", "e", "r", "_", "e", "f", "f", "e", "c", "t" >>
             THEN [res EXCEPT !.trigger_effect_id = AsU8(r.vals[1])]
             ELSE IF var = << "p", "r", "e", "v", "i", "e", "w", "_", "f", "r", "a", "m", "e" >>
             THEN [res EXCEPT !.preview_frame_number = AsU8(r.vals[1])]
             ELSE [res EXCEPT !.trap_sound = AsU8(r.vals[1])]]

\* The number of values in the parentheses of a property; 0 is a bare value.
PropertyArity(var) ==
    IF var = << "f", "r", "a", "m", "e", "s" >> THEN 2 ELSE IF var = << "t", "r", "i", "g", "g", "e", "r" >> THEN 4 ELSE 0

ObjectProperty(lx, res, var) ==
    IF var \in {<< "a", "n", "i", "m", "a", "t", "i", "o", "n", "_", "f", "l", "a", "g", "s" >>, << "f", "r", "a", "m", "e", "s" >>, << "t", "r", "i", "g", "g", "e", "r" >>, << "t", "r", "i", "g", "g", "e", "r", "_", "e", "f", "f", "e", "c", "t" >>,
                << "p", "r", "e", "v", "i", "e", "w", "_", "f", "r", "a", "m", "e" >>, << "t", "r", "a", "p", "_", "s", "o", "u", "n", "d" >>}
    THEN StoreProperty(IntList(lx, PropertyArity(var), 1, <<>>), res, var)
    ELSE [lx |-> [lx EXCEPT !.ok = FALSE], res |-> res]

\* The `loop` of ObjectHeader::parse.
RECURSIVE ObjectProperties(_, _)
PropertiesNext(p) ==
    IF ~p.lx.ok THEN p ELSE ObjectProperties(p.lx, p.res)

PropertiesStep(r, res) ==
    IF ~r.lx.ok THEN [lx |-> r.lx, res |-> res]
    ELSE IF r.tok.kind = "Ident"
    THEN PropertiesNext(ObjectProperty(expect_symbol(r.lx, "="), res, r.tok.text))
    ELSE [lx |-> [r.lx EXCEPT !.ok = r.tok = Symbol("}")], res |-> res]

ObjectProperties(lx, res) == PropertiesStep(NextOf(lx), res)

ObjectHeader_parse(lx) ==
    IF ~expect_symbol(lx, "{").ok
    THEN [lx |-> expect_symbol(lx, "{"), res |-> ObjectHeader_default]
    ELSE ObjectProperties(expect_symbol(lx, "{"), ObjectHeader_default)

(***************************************************************************)
(* create_graphics_set: what a Terrain and an Object directive add to the  *)
(* buffers once the bitmaps are loaded and the object's block is parsed.   *)
(* has_mask is mask_fname.is_some().                                       *)
(***************************************************************************)
\* The four colour planes of a w x h rectangle at (0, y), then `mask`.
PlanesAndMask(b, y, w, h, mask) ==
    LET p0 == get_plane_data(b, 0, 0, y, w, h)
        p1 == get_plane_data(b, 1, 0, y, w, h)
        p2 == get_plane_data(b, 2, 0, y, w, h)
        p3 == get_plane_data(b, 3, 0, y, w, h)
    IN  [ok |-> p0.ok /\ p1.ok /\ p2.ok /\ p3.ok /\ mask.ok,
         planes |-> p0.bytes \o p1.bytes \o p2.bytes \o p3.bytes,
         bytes |-> p0.bytes \o p1.bytes \o p2.bytes \o p3.bytes \o mask.bytes]

\* The Terrain arm from `let terrain_offset` on.
TerrainEntry(terrain_data, terrain_bmp, has_mask, mask_bmp) ==
    LET terrain_offset == Len(terrain_data)
        terrain_width == IF has_mask THEN terrain_bmp.width
                         ELSE terrain_bmp.width \div 2
        mask == IF ~has_mask
                THEN get_plane_data(terrain_bmp, 0, terrain_width, 0,
                                    terrain_width, terrain_bmp.height)
                ELSE IF terrain_width # mask_bmp.width
                        \/ terrain_bmp.height # mask_bmp.height
                THEN [ok |-> FALSE, bytes |-> <<>>]
                ELSE get_plane_data(mask_bmp, 0, 0, 0, mask_bmp.width, mask_bmp.height)
        r == PlanesAndMask(terrain_bmp, 0, terrain_width, terrain_bmp.height, mask)
        mask_offset == Len(terrain_data) + Len(r.planes)
    IN  [ok |-> r.ok,
         terrain_data |-> terrain_data \o r.bytes,
         header |-> [width |-> AsU8(terrain_bmp.width),
                     height |-> AsU8(terrain_bmp.height),
                     gfx_offset |-> AsU16(terrain_offset),
                     mask_offset |-> AsU16(mask_offset),
                     unknown1 |-> 0]]

\* `for frame in 0..object_header.frame_end as usize`
RECURSIVE ObjectFrames(_, _, _, _, _, _, _, _)
ObjectFrames(object_data, object_bmp, has_mask, mask_bmp, object_width, frame_height, frame_end, frame) ==
    IF frame >= frame_end THEN [ok |-> TRUE, object_data |-> object_data]
    ELSE LET mask == IF ~has_mask
                     THEN get_plane_data(object_bmp, 0, object_width,
                                         frame * frame_height, object_width,
                                         frame_height)
                     ELSE get_plane_data(mask_bmp, 0, 0, frame * frame_height,
                                         object_width, frame_height)
             r == PlanesAndMask(object_bmp, frame * frame_height, object_width,
                                frame_height, mask)
         IN  IF ~r.ok THEN [ok |-> FALSE, object_data |-> object_data]
             ELSE ObjectFrames(object_data \o r.bytes, object_bmp, has_mask,
                               mask_bmp, object_width, frame_height, frame_end,
                               frame + 1)

\* a + b * c on u16: the value when it fits, else a panic (overflow checks
\* on) or the value modulo 2^16 (overflow checks off).
MulAddU16(a, b, c) ==
    IF b * c < 65536 /\ a + (b * c) < 65536
    THEN {[ok |-> TRUE, val |-> a + (b * c)]}
    ELSE {[ok |-> FALSE, val |-> 0], [ok |-> TRUE, val |-> (a + (b * c)) % 65536]}

\* The outcomes of the Object arm from the mask's asserts on, for the header
\* that ObjectHeader::parse returned.
ObjectEntry(object_data, object_bmp, has_mask, mask_bmp, parsed) ==
    LET object_width == IF ~has_mask THEN object_bmp.width \div 2
                        ELSE object_bmp.width
        Fail == [ok |-> FALSE, object_data |-> object_data, header |-> parsed]
    IN
    IF has_mask /\ (mask_bmp.width # object_bmp.width
                    \/ mask_bmp.height # object_bmp.height)
    THEN {Fail}
    ELSE IF parsed.frame_end = 0 THEN {Fail}
    ELSE
      LET frame_height == object_bmp.height \div parsed.frame_end
          animation_offset == AsU16(Len(object_data))
          size == AsU16(((object_bmp.width * frame_height) \div 8) * 5)
          f == ObjectFrames(object_data, object_bmp, has_mask, mask_bmp,
                            object_width, frame_height, parsed.frame_end, 0)
      IN  { IF ~o.ok \/ ~f.ok THEN Fail
            ELSE [ok |-> TRUE,
                  object_data |-> f.object_data,
                  header |-> [parsed EXCEPT
                                !.animation_offset = animation_offset,
                                !.width = AsU8(object_width),
                                !.height = AsU8(frame_height),
                                !.animation_frame_data_size = size,
                                !.preview_frame_offset = o.val,
                                !.mask_offset = 0]] :
            o \in MulAddU16(animation_offset, size, parsed.preview_frame_number) }

(***************************************************************************)
(* Palettes: six arrays, 8 EGA bytes each and 8 VGA triples each.          *)
(***************************************************************************)
PaletteBlockSize == 96

PaletteNames ==
    << << "e", "g", "a", "_", "c", "u", "s", "t", "o", "m" >>,
       << "e", "g", "a", "_", "s", "t", "a", "n", "d", "a", "r", "d" >>,
       << "e", "g", "a", "_", "p", "r", "e", "v", "i", "e", "w" >>,
       << "v", "g", "a", "_", "c", "u", "s", "t", "o", "m" >>,
       << "v", "g", "a", "_", "s", "t", "a", "n", "d", "a", "r", "d" >>,
       << "v", "g", "a", "_", "p", "r", "e", "v", "i", "e", "w" >> >>

Palettes_default ==
    [n \in 1..6 |-> IF n <= 3 THEN Zeros(8) ELSE Zeros(24)]

\* Palettes::read: the arrays in the order of PaletteNames.
Palettes_read(raw_pal) ==
    << SubSeq(raw_pal, 1, 8), SubSeq(raw_pal, 9, 16), SubSeq(raw_pal, 17, 24),
       SubSeq(raw_pal, 25, 48), SubSeq(raw_pal, 49, 72), SubSeq(raw_pal, 73, 96) >>

Palettes_write(pal) == pal[1] \o pal[2] \o pal[3] \o pal[4] \o pal[5] \o pal[6]

\* `{}` of an integer: its decimal digits (for 0..999).
Decimal(v) ==
    IF v < 10 THEN << DigitChars[v + 1] >>
    ELSE IF v < 100 THEN << DigitChars[(v \div 10) + 1], DigitChars[(v % 10) + 1] >>
    ELSE << DigitChars[(v \div 100) + 1], DigitChars[((v \div 10) % 10) + 1],
            DigitChars[(v % 10) + 1] >>

\* write!(f, "({}, {}, {}){}", red, green, blue, terminator)
Triple(red, green, blue, i) ==
    << "(" >> \o Decimal(red) \o << ",", " " >> \o Decimal(green)
        \o << ",", " " >> \o Decimal(blue) \o << ")" >>
        \o << IF i < 7 THEN "," ELSE "}" >>

\* The loop `for i in 0..8` of Display over an EGA array: the fields are
\* (v & 0b00110000) >> 4, (v & 0b00001100) >> 2 and v & 0b00000011.
RECURSIVE EgaEntries(_, _)
EgaEntries(a, i) ==
    IF i >= 8 THEN <<>>
    ELSE Triple(And8(a[i + 1], 48) \div 16, And8(a[i + 1], 12) \div 4,
                And8(a[i + 1], 3), i) \o EgaEntries(a, i + 1)

\* The same loop over a VGA array.
RECURSIVE VgaEntries(_, _)
VgaEntries(a, i) ==
    IF i >= 8 THEN <<>>
    ELSE Triple(a[(i * 3) + 1], a[(i * 3) + 2], a[(i * 3) + 3], i)
            \o VgaEntries(a, i + 1)

\* write!(f, "\n\tname = {{")
Heading(n) == << "\n", "\t" >> \o PaletteNames[n] \o << " ", "=", " ", "{" >>

\* impl Display for Palettes
Palettes_fmt(pal) ==
    << "{" >>
      \o Heading(1) \o EgaEntries(pal[1], 0)
      \o Heading(2) \o EgaEntries(pal[2], 0)
      \o Heading(3) \o EgaEntries(pal[3], 0)
      \o Heading(4) \o VgaEntries(pal[4], 0)
      \o Heading(5) \o VgaEntries(pal[5], 0)
      \o Heading(6) \o VgaEntries(pal[6], 0)
      \o << "\n", "}", "\n" >>

\* What one entry stores: an EGA byte packed from the three values, or the
\* three VGA bytes; t holds the lexer after `)` and the values.
StoreEntry(t, a, n, i) ==
    [lx |-> IF i < 7 THEN expect_symbol(t.lx, ",") ELSE t.lx,
     a |-> IF n <= 3
           THEN [a EXCEPT ![i + 1] =
                   Or8(Or8((AsU8(t.vals[1]) * 16) % 256, (AsU8(t.vals[2]) * 4) % 256),
                       AsU8(t.vals[3]))]
           ELSE [a EXCEPT ![(i * 3) + 1] = AsU8(t.vals[1]),
                          ![(i * 3) + 2] = AsU8(t.vals[2]),
                          ![(i * 3) + 3] = AsU8(t.vals[3])]]

\* One iteration of `for i in 0..8` in Palettes::parse for the array n:
\* the lexer after it, and the array after the assignment.
ParseEntry(lx, a, n, i) == StoreEntry(IntList(lx, 3, 1, <<>>), a, n, i)

(***************************************************************************)
(* The headers of a graphics set.  The fields _unknown0, _unknown1 and     *)
(* _unknown2 of the structs are unknown0, unknown1 and unknown2 here.      *)
(***************************************************************************)
write_byte(v) == << v >>

read_byte(b) == b[1]

\* The 16-bit little-endian value at position k of a byte sequence.
Le16At(b, k) == read_le16(SubSeq(b, k, k + 1))

TerrainHeader_write(h) ==
    write_byte(h.width) \o write_byte(h.height) \o write_le16(h.gfx_offset)
        \o write_le16(h.mask_offset) \o write_le16(h.unknown1)

TerrainHeader_read(b) ==
    [width |-> read_byte(SubSeq(b, 1, 1)),
     height |-> read_byte(SubSeq(b, 2, 2)),
     gfx_offset |-> Le16At(b, 3),
     mask_offset |-> Le16At(b, 5),
     unknown1 |-> Le16At(b, 7)]

ObjectHeader_write(h) ==
    write_le16(h.animation_flags)
        \o write_byte(h.frame_start) \o write_byte(h.frame_end)
        \o write_byte(h.width) \o write_byte(h.height)
        \o write_le16(h.animation_frame_data_size)
        \o write_le16(h.mask_offset)
        \o write_le16(h.unknown0) \o write_le16(h.unknown1)
        \o write_le16(h.trigger_x) \o write_le16(h.trigger_y)
        \o write_byte(h.trigger_w) \o write_byte(h.trigger_h)
        \o write_byte(h.trigger_effect_id)
        \o write_le16(h.animation_offset)
        \o write_le16(h.preview_frame_offset)
        \o write_le16(h.unknown2)
        \o write_byte(h.trap_sound)

\* The fields as ObjectHeader::read takes them from the stream, with
\* preview_frame_number still 0.
ObjectHeaderFields(b) ==
    [animation_flags |-> Le16At(b, 1),
     frame_start |-> read_byte(SubSeq(b, 3, 3)),
     frame_end |-> read_byte(SubSeq(b, 4, 4)),
     width |-> read_byte(SubSeq(b, 5, 5)),
     height |-> read_byte(SubSeq(b, 6, 6)),
     animation_frame_data_size |-> Le16At(b, 7),
     mask_offset |-> Le16At(b, 9),
     unknown0 |-> Le16At(b, 11),
     unknown1 |-> Le16At(b, 13),
     trigger_x |-> Le16At(b, 15),
     trigger_y |-> Le16At(b, 17),
     trigger_w |-> read_byte(SubSeq(b, 19, 19)),
     trigger_h |-> read_byte(SubSeq(b, 20, 20)),
     trigger_effect_id |-> read_byte(SubSeq(b, 21, 21)),
     animation_offset |-> Le16At(b, 22),
     preview_frame_offset |-> Le16At(b, 24),
     preview_frame_number |-> 0,
     unknown2 |-> Le16At(b, 26),
     trap_sound |-> read_byte(SubSeq(b, 28, 28))]

\* a - b on u16: the difference when it is not negative, else a panic
\* (overflow checks on) or the difference modulo 2^16 (overflow checks off).
SubU16(a, b) ==
    IF a >= b THEN {[ok |-> TRUE, val |-> a - b]}
    ELSE {[ok |-> FALSE, val |-> 0], [ok |-> TRUE, val |-> (a - b) + 65536]}

\* The outcomes of ObjectHeader::read: a header, or a panic of the
\* subtraction.
ObjectHeader_read(b) ==
    LET oh == ObjectHeaderFields(b)
    IN  IF oh.animation_frame_data_size # 0
        THEN { [ok |-> d.ok,
                oh |-> IF d.ok
                       THEN [oh EXCEPT !.preview_frame_number =
                               (d.val \div oh.animation_frame_data_size) % 256]
                       ELSE oh] :
               d \in SubU16(oh.preview_frame_offset, oh.animation_offset) }
        ELSE {[ok |-> TRUE, oh |-> oh]}

(***************************************************************************)
(* ColourRGB: colours from VGA and EGA palette registers.                  *)
(***************************************************************************)
NoColour == [r |-> 0, g |-> 0, b |-> 0]

\* The outcomes of vga_rgb: a colour, or a panic of a multiplication.
vga_rgb(r, g, b) ==
    { [ok |-> cr.ok /\ cg.ok /\ cb.ok,
       colour |-> IF cr.ok /\ cg.ok /\ cb.ok
                  THEN [r |-> cr.val, g |-> cg.val, b |-> cb.val]
                  ELSE NoColour] :
      cr \in MulU8(r, 4), cg \in MulU8(g, 4), cb \in MulU8(b, 4) }

\* ega_rgb with the channels scaled by 64.
ega_rgbTimes64(val) ==
    [r |-> Or8(And8(val, 16) \div 8, And8(val, 4) \div 4) * 64,
     g |-> Or8(And8(val, 16) \div 8, And8(val, 2) \div 2) * 64,
     b |-> Or8(And8(val, 16) \div 8, And8(val, 1)) * 64]

ega_rgb(val) ==
    [r |-> Or8(And8(val, 16) \div 8, And8(val, 4) \div 4) * 85,
     g |-> Or8(And8(val, 16) \div 8, And8(val, 2) \div 2) * 85,
     b |-> Or8(And8(val, 16) \div 8, And8(val, 1)) * 85]

(***************************************************************************)
(* The .BMP file frame: the file header, the info header and the palette   *)
(* that save_as_bpp writes before the scanlines.  A palette is a sequence  *)
(* of colours [r, g, b].                                                   *)
(***************************************************************************)
\* A file header whose bfSize leaves the pixel data out.
BitmapFileHeader_newNoData(size, data_offset) ==
    [bfType |-> BITMAP_SIGNATURE, bfSize |-> data_offset, bfReserved1 |-> 0,
     bfReserved2 |-> 0, bfOffBits |-> data_offset]

BitmapFileHeader_new(size, data_offset) ==
    [bfType |-> BITMAP_SIGNATURE, bfSize |-> size, bfReserved1 |-> 0,
     bfReserved2 |-> 0, bfOffBits |-> data_offset]

BitmapFileHeader_write(h) ==
    write_le16(h.bfType) \o write_le32(h.bfSize) \o write_le16(h.bfReserved1)
        \o write_le16(h.bfReserved2) \o write_le32(h.bfOffBits)

BitmapInfoHeader_new(width, height, bpp, pal_size, image_size) ==
    [biSize |-> InfoHeaderSize, biWidth |-> width, biHeight |-> height,
     biPlanes |-> 1, biBitCount |-> bpp, biCompression |-> BI_RGB,
     biSizeImage |-> image_size, biXPelsPerMeter |-> 0, biYPelsPerMeter |-> 0,
     biClrUsed |-> pal_size, biClrImportant |-> 0]

BitmapInfoHeader_write(h) ==
    write_le32(h.biSize) \o write_le32(h.biWidth) \o write_le32(h.biHeight)
        \o write_le16(h.biPlanes) \o write_le16(h.biBitCount)
        \o write_le32(h.biCompression) \o write_le32(h.biSizeImage)
        \o write_le32(h.biXPelsPerMeter) \o write_le32(h.biYPelsPerMeter)
        \o write_le32(h.biClrUsed) \o write_le32(h.biClrImportant)

\* The entries k, k + 1, ... of the first num_colours, as B, G, R, 0.
RECURSIVE RgbQuads(_, _, _)
RgbQuads(colours, num_colours, k) ==
    IF k > Min(num_colours, Len(colours)) THEN <<>>
    ELSE << colours[k].b, colours[k].g, colours[k].r, 0 >>
            \o RgbQuads(colours, num_colours, k + 1)

write_prefix_as_rgbquads(colours, num_colours) ==
    IF ~(num_colours <= Len(colours)) THEN [ok |-> FALSE, bytes |-> <<>>]
    ELSE [ok |-> TRUE, bytes |-> RgbQuads(colours, num_colours, 1)]

\* Every byte save_as_bpp writes: the two headers, the palette, the scanlines.
save_as_bpp_file(b, colours, bpp) ==
    LET pitch == Align4(div_ceil(b.width * bpp, 8))
        data_size == pitch * b.height
        num_colours == Min(Len(colours), Pow2(bpp))
        data_offset == FileHeaderSize + InfoHeaderSize + (4 * num_colours)
        bmp_file_header == BitmapFileHeader_new(data_offset + data_size, data_offset)
        bmp_info_header == BitmapInfoHeader_new(b.width, b.height, bpp, num_colours, data_size)
        head == BitmapFileHeader_write(bmp_file_header)
                    \o BitmapInfoHeader_write(bmp_info_header)
        pal == write_prefix_as_rgbquads(colours, num_colours)
        lines == save_as_bpp(b, bpp)
    IN  IF ~pal.ok THEN [ok |-> FALSE, bytes |-> head]
        ELSE IF ~lines.ok THEN [ok |-> FALSE, bytes |-> head \o pal.bytes]
        ELSE [ok |-> TRUE, bytes |-> head \o pal.bytes \o lines.bytes]

\* The header file: 16 object headers, 64 terrain headers, the palettes.
NumObjectHeaders == 16
NumTerrainHeaders == 64
ObjectHeaderSize == 28
TerrainHeaderSize == 8
HeaderFileSize ==
    (NumObjectHeaders * ObjectHeaderSize) + (NumTerrainHeaders * TerrainHeaderSize)
        + PaletteBlockSize

\* The concatenation of a sequence of sequences.
RECURSIVE Concat(_)
Concat(fs) == IF fs = <<>> THEN <<>> ELSE Head(fs) \o Concat(Tail(fs))

\* The bytes DatSection::from_file takes from the stream for a section.
SectionBytes(f) == read_be32(SubSeq(f, 7, 10))

(***************************************************************************)
(* Bitmap files as create and extract use them: what save_as_file puts in  *)
(* the headers for from_file (width, height, bit count) and the scanlines. *)
(***************************************************************************)
\* `data.rchunks(width)`, written out chunk after chunk.
RECURSIVE RChunks(_, _)
RChunks(d, n) ==
    IF d = <<>> THEN <<>>
    ELSE IF Len(d) <= n THEN d
    ELSE SubSeq(d, Len(d) - n + 1, Len(d)) \o RChunks(SubSeq(d, 1, Len(d) - n), n)

save_as_file(b) ==
    IF b.planes = 1 \/ b.planes \in 2..4
    THEN LET bpp == IF b.planes = 1 THEN 1 ELSE 4
             r == save_as_bpp(b, bpp)
         IN  [ok |-> r.ok, width |-> b.width, height |-> b.height,
              bpp |-> bpp, bytes |-> r.bytes]
    ELSE LET d == to_pal8_data(b)
         IN  [ok |-> d.ok /\ b.width # 0, width |-> b.width, height |-> b.height,
              bpp |-> 8, bytes |-> IF d.ok /\ b.width # 0
                                   THEN RChunks(d.bytes, b.width) ELSE <<>>]

\* PlanarBMP::from_file on a file written by save_as_file.
PlanarBMP_from_file(f) == from_packed_data(f.bytes, f.width, f.height, f.bpp)

(***************************************************************************)
(* extract_graphics_set.  A run yields [ok, script, files]: whether it     *)
(* returned, the text written to the script, and the bitmap files written, *)
(* a set of [name, file].  The palette given to the bitmaps is left out:   *)
(* create_graphics_set does not look at it.                                *)
(***************************************************************************)
\* `&data[a..b]`
Slice(d, a, b) ==
    [ok |-> a <= b /\ b <= Len(d), bytes |-> SubSeq(d, a + 1, b)]

\* `pattern.replace("#", &i.to_string())` for a pattern << before, after >>.
FileName(pattern, i) == pattern[1] \o DecimalDigits(i) \o pattern[2]

NoPattern == << >>

\* The options cmd_extract_graphics_set passes, for graphics set 0.
ExtractSetOptions ==
    [terrain_filename_pattern |-> << << "s", "e", "t", "0", "_", "t", "e", "r", "r", "a", "i", "n" >>, << ".", "b", "m", "p" >> >>,
     terrain_mask_filename_pattern |-> << << "s", "e", "t", "0", "_", "t", "e", "r", "r", "a", "i", "n" >>, << "_", "m", "a", "s", "k", ".", "b", "m", "p" >> >>,
     object_filename_pattern |-> << << "s", "e", "t", "0", "_", "o", "b", "j" >>, << ".", "b", "m", "p" >> >>,
     object_mask_filename_pattern |-> << << "s", "e", "t", "0", "_", "o", "b", "j" >>, << "_", "m", "a", "s", "k", ".", "b", "m", "p" >> >>,
     ega_mode |-> FALSE]

\* ExtractOptions::default()
ExtractOptions_default ==
    [terrain_filename_pattern |-> << << "t", "e", "r", "r", "a", "i", "n" >>, << ".", "b", "m", "p" >> >>,
     terrain_mask_filename_pattern |-> NoPattern,
     object_filename_pattern |-> << << "o", "b", "j" >>, << ".", "b", "m", "p" >> >>,
     object_mask_filename_pattern |-> NoPattern,
     ega_mode |-> FALSE]

Quoted(name) == << "\"" >> \o name \o << "\"" >>

\* The two sections of the data file, decompressed.
ExtractSections(data_file) ==
    LET Fail == [ok |-> FALSE, terrain_data |-> <<>>, object_data |-> <<>>]
        rest == SubSeq(data_file, SectionBytes(data_file) + 1, Len(data_file))
    IN  UNION { IF r1.kind # "ok" THEN {Fail}
                ELSE UNION { IF ~d1.ok THEN {Fail}
                             ELSE UNION { IF r2.kind # "ok" THEN {Fail}
                                          ELSE { IF ~d2.ok THEN Fail
                                                 ELSE [ok |-> TRUE,
                                                       terrain_data |-> d1.output,
                                                       object_data |-> d2.output] :
                                                 d2 \in decompress(r2.sec) } :
                                          r2 \in from_file(rest) } :
                             d1 \in decompress(r1.sec) } :
                r1 \in from_file(data_file) }

\* The 16 object headers: every outcome of ObjectHeader::read on each.
RECURSIVE ReadObjectHeaders(_, _, _)
ReadObjectHeaders(header_file, k, acc) ==
    IF k = NumObjectHeaders THEN {[ok |-> TRUE, hs |-> acc]}
    ELSE UNION { IF ~r.ok THEN {[ok |-> FALSE, hs |-> acc]}
                 ELSE ReadObjectHeaders(header_file, k + 1, Append(acc, r.oh)) :
                 r \in ObjectHeader_read(SubSeq(header_file,
                                                (k * ObjectHeaderSize) + 1,
                                                (k + 1) * ObjectHeaderSize)) }

ReadTerrainHeaders(header_file) ==
    [k \in 1..NumTerrainHeaders |->
        TerrainHeader_read(SubSeq(header_file,
            (NumObjectHeaders * ObjectHeaderSize) + ((k - 1) * TerrainHeaderSize) + 1,
            (NumObjectHeaders * ObjectHeaderSize) + (k * TerrainHeaderSize)))]

\* Steps on a bitmap result [ok, bmp] that keep an earlier panic.
BlitOn(self, src, x, y) ==
    IF ~self.ok \/ ~src.ok THEN [ok |-> FALSE, bmp |-> self.bmp]
    ELSE blit(self.bmp, src.bmp, x, y)

SwizzleOn(b, plane_map) ==
    IF ~b.ok THEN b ELSE from_swizzle(b.bmp, plane_map)

SaveOn(b) ==
    IF ~b.ok THEN [ok |-> FALSE, width |-> 0, height |-> 0, bpp |-> 0, bytes |-> <<>>]
    ELSE save_as_file(b.bmp)

\* A run that has written up to two more files and then one more line; f
\* and g are save_as_file results, not ok on a panic.
Written(out, line, f_name, f, has_g, g_name, g) ==
    IF ~f.ok \/ (has_g /\ ~g.ok) THEN [out EXCEPT !.ok = FALSE]
    ELSE [out EXCEPT
            !.script = @ \o line,
            !.files = @ \cup {[name |-> f_name, file |-> f]}
                        \cup (IF has_g THEN {[name |-> g_name, file |-> g]} ELSE {})]

\* One terrain: the two slices, the bitmaps, the files and the script line.
ExtractTerrain(s1, s2, terrain_header, options, i, out) ==
    IF ~s1.ok \/ ~s2.ok THEN [out EXCEPT !.ok = FALSE]
    ELSE IF options.terrain_mask_filename_pattern = NoPattern
    THEN Written(out,
           << "T", "e", "r", "r", "a", "i", "n", " " >> \o Quoted(FileName(options.terrain_filename_pattern, i))
             \o << "\n" >>,
           FileName(options.terrain_filename_pattern, i),
           SaveOn(BlitOn(BlitOn(new(terrain_header.width * 2, terrain_header.height, 4),
                                from_contiguous_data(s1.bytes, terrain_header.width,
                                                     terrain_header.height, 4),
                                0, 0),
                         SwizzleOn(from_contiguous_data(s2.bytes, terrain_header.width,
                                                        terrain_header.height, 1),
                                   << 0, 0, 0, 0 >>),
                         terrain_header.width, 0)),
           FALSE, <<>>, SaveOn([ok |-> FALSE, bmp |-> NoBmp]))
    ELSE Written(out,
           << "T", "e", "r", "r", "a", "i", "n", " " >> \o Quoted(FileName(options.terrain_filename_pattern, i))
             \o << " ", "M", "a", "s", "k", " " >>
             \o Quoted(FileName(options.terrain_mask_filename_pattern, i))
             \o << "\n" >>,
           FileName(options.terrain_filename_pattern, i),
           SaveOn(from_contiguous_data(s1.bytes, terrain_header.width,
                                       terrain_header.height, 4)),
           TRUE,
           FileName(options.terrain_mask_filename_pattern, i),
           SaveOn(from_contiguous_data(s2.bytes, terrain_header.width,
                                       terrain_header.height, 1)))

\* `for i in 0..64` over the terrain headers; out is the run so far.
RECURSIVE ExtractTerrains(_, _, _, _, _)
ExtractTerrains(terrain_data, terrain_headers, options, i, out) ==
    IF ~out.ok \/ i >= NumTerrainHeaders \/ terrain_headers[i + 1].width = 0 THEN out
    ELSE ExtractTerrains(terrain_data, terrain_headers, options, i + 1,
           ExtractTerrain(
             Slice(terrain_data, terrain_headers[i + 1].gfx_offset,
                   terrain_headers[i + 1].gfx_offset
                     + ((((terrain_headers[i + 1].width * terrain_headers[i + 1].height)
                            \div 8)) * 4)),
             Slice(terrain_data, terrain_headers[i + 1].mask_offset,
                   terrain_headers[i + 1].mask_offset
                     + ((terrain_headers[i + 1].width * terrain_headers[i + 1].height)
                          \div 8)),
             terrain_headers[i + 1], options, i, out))

\* One frame of an object: st is [ok, filmstrip_image, mask_bmp], the last
\* two being bitmap results; s1 and s2 are the slices of the frame.
ExtractFrame(s1, s2, obj_header, has_mask, st, frame) ==
    IF ~s1.ok \/ ~s2.ok THEN [st EXCEPT !.ok = FALSE]
    ELSE IF has_mask
    THEN [ok |-> TRUE,
          filmstrip_image |->
              BlitOn(st.filmstrip_image,
                     from_contiguous_data(s1.bytes, obj_header.width,
                                          obj_header.height, 4),
                     0, frame * obj_header.height),
          mask_bmp |->
              BlitOn(st.mask_bmp,
                     from_contiguous_data(s2.bytes, obj_header.width,
                                          obj_header.height, 1),
                     0, frame * obj_header.height)]
    ELSE [ok |-> TRUE,
          filmstrip_image |->
              BlitOn(BlitOn(st.filmstrip_image,
                            from_contiguous_data(s1.bytes, obj_header.width,
                                                 obj_header.height, 4),
                            0, frame * obj_header.height),
                     SwizzleOn(from_contiguous_data(s2.bytes, obj_header.width,
                                                    obj_header.height, 1),
                               << 0, 0, 0, 0 >>),
                     obj_header.width, frame * obj_header.height),
          mask_bmp |-> st.mask_bmp]

\* `for frame in 0..obj_header.frame_end`
RECURSIVE ExtractFrames(_, _, _, _, _)
ExtractFrames(object_data, obj_header, has_mask, st, frame) ==
    IF ~st.ok \/ ~st.filmstrip_image.ok \/ ~st.mask_bmp.ok
       \/ frame >= obj_header.frame_end
    THEN st
    ELSE ExtractFrames(object_data, obj_header, has_mask,
           ExtractFrame(
             Slice(object_data,
                   obj_header.animation_offset
                     + (obj_header.animation_frame_data_size * frame),
                   obj_header.animation_offset
                     + (obj_header.animation_frame_data_size * frame)
                     + (((obj_header.width * obj_header.height) \div 8) * 4)),
             Slice(object_data,
                   obj_header.animation_offset
                     + (obj_header.animation_frame_data_size * frame)
                     + obj_header.mask_offset,
                   obj_header.animation_offset
                     + (obj_header.animation_frame_data_size * frame)
                     + obj_header.mask_offset
                     + ((obj_header.width * obj_header.height) \div 8)),
             obj_header, has_mask, st, frame),
           frame + 1)

\* The script line of an object.
ObjectLine(obj_header, options, i) ==
    IF options.object_mask_filename_pattern # NoPattern
    THEN << "O", "b", "j", "e", "c", "t", " " >> \o Quoted(FileName(options.object_filename_pattern, i))
           \o << " ", "M", "a", "s", "k", " " >> \o Quoted(FileName(options.object_mask_filename_pattern, i))
           \o << " ", "=", " " >> \o ObjectHeader_fmt(obj_header) \o << "\n" >>
    ELSE << "O", "b", "j", "e", "c", "t", " " >> \o Quoted(FileName(options.object_filename_pattern, i))
           \o << " ", "=", " " >> \o ObjectHeader_fmt(obj_header) \o << "\n" >>

\* One object, from its bitmaps after the frame loop; out has the script
\* line of the object already.
ExtractObject(st, options, i, out) ==
    IF ~st.ok THEN [out EXCEPT !.ok = FALSE]
    ELSE Written(out, <<>>,
                 FileName(options.object_filename_pattern, i),
                 SaveOn(st.filmstrip_image),
                 options.object_mask_filename_pattern # NoPattern,
                 IF options.object_mask_filename_pattern # NoPattern
                 THEN FileName(options.object_mask_filename_pattern, i) ELSE <<>>,
                 SaveOn(IF options.object_mask_filename_pattern # NoPattern
                        THEN st.mask_bmp ELSE [ok |-> FALSE, bmp |-> NoBmp]))

\* The filmstrip is obj_header.width wide with a mask file and twice that
\* without.
FilmstripWidth(obj_header, options) ==
    obj_header.width * (IF options.object_mask_filename_pattern = NoPattern
                        THEN 2 ELSE 1)

\* `for i in 0..16` over the object headers.
RECURSIVE ExtractObjects(_, _, _, _, _)
ExtractObjects(object_data, obj_headers, options, i, out) ==
    IF ~out.ok \/ i >= NumObjectHeaders \/ obj_headers[i + 1].width = 0 THEN out
    ELSE ExtractObjects(object_data, obj_headers, options, i + 1,
           ExtractObject(
             ExtractFrames(object_data, obj_headers[i + 1],
               options.object_mask_filename_pattern # NoPattern,
               [ok |-> TRUE,
                filmstrip_image |->
                    new(FilmstripWidth(obj_headers[i + 1], options),
                        obj_headers[i + 1].height * obj_headers[i + 1].frame_end, 4),
                mask_bmp |->
                    IF options.object_mask_filename_pattern # NoPattern
                    THEN new(FilmstripWidth(obj_headers[i + 1], options),
                             obj_headers[i + 1].height * obj_headers[i + 1].frame_end, 1)
                    ELSE [ok |-> TRUE, bmp |-> NoBmp]],
               0),
             options, i,
             [out EXCEPT !.script = @ \o ObjectLine(obj_headers[i + 1], options, i)]))

\* `write!(script, "Palettes = {}\n", &all_pals)`
ExtractPalettes(out, all_pals) ==
    IF ~out.ok THEN out
    ELSE [out EXCEPT !.script = @ \o << "P", "a", "l", "e", "t", "t", "e", "s", " ", "=", " " >> \o Palettes_fmt(all_pals)
                                   \o << "\n" >>]

\* The runs of extract_graphics_set on a header file and a data file, the
\* script holding `script` already.
extract_graphics_set(script, header_file, data_file, options) ==
    UNION {
      IF ~s.ok THEN {[ok |-> FALSE, script |-> script, files |-> {}]}
      ELSE { IF ~o.ok \/ Len(header_file) < HeaderFileSize
             THEN [ok |-> FALSE, script |-> script, files |-> {}]
             ELSE ExtractPalettes(
                    ExtractObjects(s.object_data, o.hs, options, 0,
                      ExtractTerrains(s.terrain_data, ReadTerrainHeaders(header_file),
                        options, 0,
                        [ok |-> TRUE, script |-> script, files |-> {}])),
                    Palettes_read(SubSeq(header_file,
                                         HeaderFileSize - PaletteBlockSize + 1,
                                         HeaderFileSize))) :
             o \in ReadObjectHeaders(header_file, 0, <<>>) } :
      s \in ExtractSections(data_file) }

\* A section as it goes to the data file; s is what from_data returned.
SectionFile(s) == [ok |-> ~s.panicked, bytes |-> write(StructOf(s))]

\* The header file.
HeaderFile(terrain_headers, object_headers, pal) ==
    Concat([i \in 1..NumObjectHeaders |->
              ObjectHeader_write(IF i - 1 < Len(object_headers)
                                 THEN object_headers[i]
                                 ELSE ObjectHeader_default)])
      \o Concat([i \in 1..NumTerrainHeaders |->
                   TerrainHeader_write(IF i - 1 < Len(terrain_headers)
                                       THEN terrain_headers[i]
                                       ELSE TerrainHeader_default)])
      \o Palettes_write(pal)

OutputFiles(terrain_section, object_section, header) ==
    [ok |-> terrain_section.ok /\ object_section.ok,
     data |-> terrain_section.bytes \o object_section.bytes,
     header |-> header]

\* create_graphics_set from `// Now we've finished parsing the script` on:
\* the data file and the header file.
CreateOutput(terrain_data, object_data, terrain_headers, object_headers, pal) ==
    OutputFiles(SectionFile(from_data(terrain_data, Len(terrain_data))),
                SectionFile(from_data(object_data, Len(object_data))),
                HeaderFile(terrain_headers, object_headers, pal))

(***************************************************************************)
(* The codec as a state machine.                                           *)
(*                                                                         *)
(*   data    the uncompressed buffer handed to from_data                   *)
(*   pc      where the run is: "start", "compressed" (from_data returned), *)
(*           "written" (the section is on the stream), "loaded" (from_file *)
(*           returned Ok), "decoding" (inside decompress's loop), "done"   *)
(*           (decompress returned), "panic", or an error of from_file      *)
(*   sec     the DatSection of the run, with its cursor                    *)
(*   file    the bytes of the stream                                       *)
(*   output, i   the locals of decompress                                  *)
(*   tokens, used, order, reads   history: the tokens from_data emitted,   *)
(*           the bits it shifted into its last byte, the output indices    *)
(*           decompress wrote, and the (byte, bit) positions read_bits     *)
(*           took its bits from; consumed: the commands decompress read    *)
(***************************************************************************)
VARIABLES data, pc, sec, file, output, i, tokens, used, order, reads, consumed

datvars == << data, pc, sec, file, output, i, tokens, used, order, reads,
             consumed >>

(***************************************************************************)
(* The state of a run of the bitmap engine.                                *)
(*   bpc     where the run is: "idle" (no bitmap run), "start", "made" (a  *)
(*           constructor returned bmp), "swizzled" (from_swizzle returned  *)
(*           bmp), "set" (pset returned), "plane" (get_plane_data          *)
(*           returned), "dest" (a destination bitmap was made), "blitted"  *)
(*           (blit returned), "saved" (save_as_bpp wrote packed), "reread" *)
(*           (from_packed_data returned bmp2), "panic"                     *)
(*   bop     history: the operation called last                            *)
(*   bmp     the bitmap of the run                                         *)
(*   prev, px   history: the bitmap before pset or from_swizzle, and the   *)
(*           arguments of pset                                             *)
(*   plane_map   history: the argument of from_swizzle                     *)
(*   plane_req   the arguments of get_plane_data and the bytes it returned *)
(*   dest    the bitmap blit writes into                                   *)
(*   blt     history: the arguments of the last blit, dest before it, and  *)
(*           the number of blits so far                                    *)
(*   packed  the scanline bytes save_as_bpp wrote                          *)
(*   bmp2    the bitmap read back from packed                              *)
(***************************************************************************)
VARIABLES bmp, bpc, bop, prev, px, plane_map, plane_req, dest, blt, packed, bmp2

bmpvars == << bmp, bpc, bop, prev, px, plane_map, plane_req, dest, blt, packed, bmp2 >>

NoPx == [x |-> 0, y |-> 0, value |-> 0]

NoReq == [plane |-> 0, x |-> 0, y |-> 0, w |-> 0, h |-> 0, bytes |-> <<>>]

NoBlit == [x |-> 0, y |-> 0, before |-> NoBmp, n |-> 0]

\* The bitmap variables before any operation.
BmpBlank ==
    /\ bmp = NoBmp /\ bop = "none" /\ prev = NoBmp /\ px = NoPx
    /\ plane_map = <<>> /\ plane_req = NoReq /\ dest = NoBmp /\ blt = NoBlit
    /\ packed = <<>> /\ bmp2 = NoBmp

BmpIdle == bpc = "idle" /\ BmpBlank

(***************************************************************************)
(* The state of a run that saves a bitmap as a .BMP file.                  *)
(*   fpc     where the run is: "idle", "start", "made" (image and palette  *)
(*           exist), "saved" (save_as_bpp returned), "panic"               *)
(*   image, palette   the bitmap saved and the colours of its palette      *)
(*   bpp     the depth it is saved at                                      *)
(*   bfile   the bytes written                                             *)
(***************************************************************************)
VARIABLES fpc, image, palette, bpp, bfile

bfvars == << fpc, image, palette, bpp, bfile >>

BmpFileBlank == image = NoBmp /\ palette = <<>> /\ bpp = 0 /\ bfile = <<>>

BmpFileIdle == fpc = "idle" /\ BmpFileBlank

(***************************************************************************)
(* The state of a palette construction.                                    *)
(*   cpc     where it is: "idle", "start", "ega" (ega_rgb returned), "vga" *)
(*           (vga_rgb returned), "panic"                                   *)
(*   colour_in   the register value(s) given: one EGA byte or a VGA triple *)
(*   colour  the colour returned                                           *)
(***************************************************************************)
VARIABLES cpc, colour_in, colour

palvars == << cpc, colour_in, colour >>

PalIdle == cpc = "idle" /\ colour_in = <<>> /\ colour = NoColour

(***************************************************************************)
(* The state of a Lexer and of its caller.                                 *)
(*   lpc     "idle", "ready" (calls can be made), "panic", "hang" (a call  *)
(*           that never returns)                                           *)
(*   text, offset, line, buffered_token   the fields of the Lexer          *)
(*   last    the last call: op ("from_str", "next", "peek", "unget"), the  *)
(*           token it returned, buffered_token and offset when it was      *)
(*           made, the offset after its eat_whitespace, whether it ended   *)
(*           in the assert of the buffer, and the call before it           *)
(*   toks    the tokens next_token has returned                            *)
(*   lookahead   whether peek_token or unget_token has been called         *)
(*   seen_none   whether next_token has returned None                      *)
(*   after_none  whether it had done so before the last call               *)
(***************************************************************************)
VARIABLES lpc, text, offset, line, buffered_token, last, toks, lookahead,
          seen_none, after_none

lexvars == << lpc, text, offset, line, buffered_token, last, toks, lookahead,
              seen_none, after_none >>

NoCall == [op |-> "none", ret |-> NoToken, before |-> NoToken, from |-> 0,
           start |-> 0, refused |-> FALSE, prevop |-> "none"]

LexBlank ==
    /\ text = <<>> /\ offset = 0 /\ line = 1 /\ buffered_token = NoToken
    /\ last = NoCall /\ toks = <<>> /\ lookahead = FALSE
    /\ seen_none = FALSE /\ after_none = FALSE

LexIdle == lpc = "idle" /\ LexBlank

(***************************************************************************)
(* The state of a header being written and read back.                      *)
(*   hpc     "idle", "start", "terrain" / "object" (a header made),        *)
(*           "terrain_written" / "object_written", "terrain_read" /        *)
(*           "object_read", "panic"                                        *)
(*   header  the header made                                               *)
(*   hbytes  the bytes write produced                                      *)
(*   header2 the header read returned                                      *)
(***************************************************************************)
VARIABLES hpc, header, hbytes, header2

hdrvars == << hpc, header, hbytes, header2 >>

NoHeader == [width |-> 0, height |-> 0]

HdrBlank == header = NoHeader /\ hbytes = <<>> /\ header2 = NoHeader

HdrIdle == hpc = "idle" /\ HdrBlank

(***************************************************************************)
(* The state of from_data taken one step at a time: one iteration of the   *)
(* main loop, one add_bits call of a literal flush.                        *)
(*   wpc     "idle", "loop" (at the test of `while i < uncomp_size`),      *)
(*           "flush" (at the test of `while last_uncomp_off < i`),         *)
(*           "bytes" (in the `for b` loop), "flushed" (the flush after the *)
(*           main loop has ended), "panic"                                 *)
(*   ws      dat_section, with the history fields of the bit writer        *)
(*   lit     the locals: data, last_uncomp_off, i, uncomp_len, b,          *)
(*           have_match and the bests of the search (m)                    *)
(***************************************************************************)
VARIABLES wpc, ws, lit

flvars == << wpc, ws, lit >>

NoMatch ==
    [ longest_len |-> 1, longest_off |-> 0,
      best_match_2 |-> -1, best_match_3 |-> -1, best_match_4 |-> -1 ]

NoRun ==
    [ data |-> <<>>, last_uncomp_off |-> 0, i |-> 0, uncomp_len |-> 0, b |-> 0,
      have_match |-> FALSE, m |-> NoMatch ]

FlushIdle == wpc = "idle" /\ ws = InitialCursor(0) /\ lit = NoRun

(***************************************************************************)
(* The state of extract_dat.                                               *)
(*   xpc          "idle", "loop", "done" (the function has returned),      *)
(*                "panic"                                                  *)
(*   dat          the bytes of name.dat                                    *)
(*   pos          the read position of the file                            *)
(*   section_num  the local of that name                                   *)
(*   written      the files created: [num, at, data] for name.{num:03},    *)
(*                made from the section read at position at                *)
(*   err          the Err that ended the loop ("none" before)              *)
(***************************************************************************)
VARIABLES xpc, dat, pos, section_num, written, err

xdvars == << xpc, dat, pos, section_num, written, err >>

ExtractDatIdle ==
    /\ xpc = "idle" /\ dat = <<>> /\ pos = 0 /\ section_num = 0
    /\ written = <<>> /\ err = "none"

(***************************************************************************)
(* The state of a palette block on its way through extract and create.     *)
(*   ppc       "idle", "block" (the 96 bytes are in the header file),      *)
(*             "read", "script" (Display has written the text), "names"    *)
(*             (Palettes::parse at its `loop`), "entries" (in a `for i`    *)
(*             loop), "parsed", "written", "panic"                         *)
(*   raw_pal   the 96 bytes extract reads                                  *)
(*   pal       the Palettes value (of extract, then of parse)              *)
(*   plx       the lexer over the text Display wrote                       *)
(*   pn, pi    the array being parsed (1..6) and the loop index            *)
(*   pal_out   the 96 bytes create writes                                  *)
(***************************************************************************)
VARIABLES ppc, raw_pal, pal, plx, pn, pi, pal_out

ptvars == << ppc, raw_pal, pal, plx, pn, pi, pal_out >>

PalTextIdle ==
    /\ ppc = "idle" /\ raw_pal = <<>> /\ pal = Palettes_default
    /\ plx = LexerOf(<<>>) /\ pn = 0 /\ pi = 0 /\ pal_out = <<>>

(***************************************************************************)
(* The state of create_graphics_set.                                       *)
(*   gpc              "idle", "loop" (at `loop`), "done", "panic"          *)
(*   terrain_data, object_data, terrain_headers, object_headers            *)
(*                    the locals of those names                            *)
(*   entries          for each header pushed: its kind, whether it had a   *)
(*                    Mask file, and the length of its buffer before and   *)
(*                    after                                                *)
(***************************************************************************)
VARIABLES gpc, terrain_data, object_data, terrain_headers, object_headers,
          entries

gsvars ==
    << gpc, terrain_data, object_data, terrain_headers, object_headers, entries >>

CreateBlank ==
    /\ terrain_data = <<>> /\ object_data = <<>>
    /\ terrain_headers = <<>> /\ object_headers = <<>> /\ entries = <<>>

CreateIdle == gpc = "idle" /\ CreateBlank

(***************************************************************************)
(* The commands create-set and extract-set around create_graphics_set and  *)
(* extract_graphics_set.  The script's lexer is plx, Palettes::parse runs  *)
(* on it with ppc, pn, pi and fills pal.                                   *)
(*   peeked    the lexer's buffered_token                                  *)
(*   disk      the bitmap files in the directory, a set of [name, bmp]     *)
(*             with bmp what PlanarBMP::from_file returns for the file     *)
(*             ([ok, bmp])                                                 *)
(*   outfiles  the header file and the data file create-set wrote          *)
(*   round     1 for the original create-set, 2 once extract-set has run      *)
(*   original  the files of round 1                                        *)
(***************************************************************************)
VARIABLES peeked, disk, outfiles, round, original

crvars == << peeked, disk, outfiles, round, original >>

NoFiles == [header |-> <<>>, data |-> <<>>]

CreateSetIdle ==
    peeked = NoToken /\ disk = {} /\ outfiles = NoFiles /\ round = 0 /\ original = NoFiles

\* The variables of the other components, as seen from the codec.
nondatvars ==
    << bmpvars, bfvars, palvars, lexvars, hdrvars, flvars, xdvars,
       ptvars, gsvars,
       crvars >>

NonDatIdle ==
    BmpIdle /\ BmpFileIdle /\ PalIdle /\ LexIdle /\ HdrIdle /\ FlushIdle /\ ExtractDatIdle
        /\ PalTextIdle /\ CreateIdle
        /\ CreateSetIdle

InputBytes == {(k * 90) % 256 : k \in 0..(NumByteValues - 1)}

FileBytes == {(k * 165) % 256 : k \in 0..(NumFileByteValues - 1)}

DatIdle ==
    /\ data = <<>> /\ pc = "idle" /\ sec = new_empty /\ file = <<>>
    /\ output = <<>> /\ i = 0 /\ tokens = <<>> /\ used = 0
    /\ order = <<>> /\ reads = <<>> /\ consumed = <<>>

\* A run of the codec starts with a buffer to compress.
CodecInit ==
    /\ data \in SeqsUpTo(InputBytes, MaxLen)
    /\ pc = "start" /\ sec = new_empty /\ file = <<>>
    /\ output = <<>> /\ i = 0 /\ tokens = <<>> /\ used = 0
    /\ order = <<>> /\ reads = <<>> /\ consumed = <<>>
    /\ NonDatIdle

FromData ==
    /\ pc = "start"
    /\ LET s == from_data(data, Len(data))
       IN  /\ sec' = StructOf(s)
           /\ tokens' = s.tokens
           /\ used' = s.used
           /\ pc' = IF s.panicked THEN "panic" ELSE "compressed"
    /\ UNCHANGED << data, file, output, i, order, reads, consumed >>
    /\ UNCHANGED nondatvars

Write ==
    /\ pc = "compressed"
    /\ file' = write(sec)
    /\ pc' = "written"
    /\ UNCHANGED << data, sec, output, i, tokens, used, order, reads, consumed >>
    /\ UNCHANGED nondatvars

FromFile ==
    /\ pc = "written"
    /\ \E r \in from_file(file) :
         /\ pc' = IF r.kind = "ok" THEN "loaded" ELSE r.kind
         /\ sec' = r.sec
    /\ UNCHANGED << data, file, output, i, tokens, used, order, reads, consumed >>
    /\ UNCHANGED nondatvars

\* decompress up to the first test of its loop.
DecompressStart ==
    /\ pc = "loaded"
    /\ \E d \in DecompressEntry(sec) :
         /\ pc' = IF d.ok THEN "decoding" ELSE "panic"
         /\ output' = d.output
         /\ i' = d.i
    /\ UNCHANGED << data, sec, file, tokens, used, order, reads, consumed >>
    /\ UNCHANGED nondatvars

\* One iteration of `while i > 0`: a command, then `if i == 0 { break }`
\* (decompress returns) or `i -= 1`.
DecompressStep ==
    /\ pc = "decoding"
    /\ i > 0
    /\ LET d == Command([sec |-> sec, output |-> output, i |-> i,
                         ok |-> TRUE, order |-> order, consumed |-> consumed])
       IN  /\ sec' = d.sec
           /\ output' = d.output
           /\ order' = d.order
           /\ consumed' = d.consumed
           /\ pc' = IF ~d.ok THEN "panic" ELSE IF d.i = 0 THEN "done" ELSE "decoding"
           /\ i' = IF d.ok /\ d.i > 0 THEN d.i - 1 ELSE d.i
    /\ UNCHANGED << data, file, tokens, used, reads >>
    /\ UNCHANGED nondatvars

\* The test `while i > 0` fails: decompress returns output.
DecompressReturn ==
    /\ pc = "decoding"
    /\ i = 0
    /\ pc' = "done"
    /\ UNCHANGED << data, sec, file, output, i, tokens, used, order, reads,
                    consumed >>
    /\ UNCHANGED nondatvars

CodecNext ==
    \/ FromData
    \/ Write
    \/ FromFile
    \/ DecompressStart
    \/ DecompressStep
    \/ DecompressReturn

(***************************************************************************)
(* A section file found on disk, read by from_file and then consumed bit   *)
(* by bit.  The header's comp_size need not agree with the bytes present,  *)
(* and the checksum byte need not be the XOR of the payload.               *)
(***************************************************************************)
DiskFiles ==
    { << nbits, checksum >>
        \o write_be32(uncomp) \o write_be32(comp) \o payload :
      nbits \in 0..BitsPerByte,
      checksum \in FileBytes,
      uncomp \in {1},
      comp \in (HeaderSize - 1)..(HeaderSize + MaxPayload),
      payload \in SeqsUpTo(FileBytes, MaxPayload) }

FileInit ==
    /\ file \in DiskFiles
    /\ data = <<>> /\ pc = "written" /\ sec = new_empty
    /\ output = <<>> /\ i = 0 /\ tokens = <<>> /\ used = 0
    /\ order = <<>> /\ reads = <<>> /\ consumed = <<>>
    /\ NonDatIdle

\* One iteration of the loop of read_bits on the loaded section.
ReadBitStep ==
    /\ pc = "loaded"
    /\ Len(reads) < MaxReads
    /\ LET r == ReadBit(sec)
       IN  /\ pc' = IF r.ok THEN "loaded" ELSE "panic"
           /\ sec' = r.sec
           /\ reads' = IF r.ok
                       THEN Append(reads, << sec.byte_offset, sec.bit_offset >>)
                       ELSE reads
    /\ UNCHANGED << data, file, output, i, tokens, used, order, consumed >>
    /\ UNCHANGED nondatvars

FileNext ==
    \/ FromFile
    \/ ReadBitStep

(***************************************************************************)
(* The bitmap engine as a state machine: a constructor makes a bitmap from *)
(* the sizes and the data its callers pass, from_swizzle derives another,  *)
(* pset changes a pixel, save_as_bpp writes the scanlines of a .BMP and    *)
(* from_packed_data (under from_file) reads them back.                     *)
(***************************************************************************)
Widths == 1..MaxWidth

Heights == 1..MaxHeight

\* Bytes of a buffer handed to a constructor.
PatternData(seed, len) == [k \in 1..len |-> ((seed * 151) + (k * 114)) % 256]

PixelValues(planes) == {(k * 165) % Pow2(planes) : k \in 0..(NumPixelValues - 1)}

\* The variables of the other components, as seen from the bitmap engine.
nonbmpvars ==
    << datvars, bfvars, palvars, lexvars, hdrvars, flvars, xdvars,
       ptvars, gsvars,
       crvars >>

NonBmpIdle ==
    DatIdle /\ BmpFileIdle /\ PalIdle /\ LexIdle /\ HdrIdle /\ FlushIdle /\ ExtractDatIdle
        /\ PalTextIdle /\ CreateIdle
        /\ CreateSetIdle

BmpInit ==
    /\ NonBmpIdle
    /\ bpc = "start" /\ BmpBlank

New ==
    /\ bpc = "start"
    /\ \E width \in Widths, height \in Heights, planes \in {1, 4, MaxPlanes, MaxPlanes + 1} :
         LET r == new(width, height, planes)
         IN  /\ bmp' = r.bmp
             /\ bpc' = IF r.ok THEN "made" ELSE "panic"
    /\ bop' = "new"
    /\ UNCHANGED << nonbmpvars, prev, px, plane_map, plane_req, dest, blt, packed, bmp2 >>

\* The extractors slice (width * height / 8) * planes bytes of the section.
FromContiguousData ==
    /\ bpc = "start"
    /\ \E width \in Widths, height \in Heights, planes \in {1, 4}, seed \in 1..NumPatterns :
         LET planar_size == (width * height) \div 8
             r == from_contiguous_data(PatternData(seed, planar_size * planes),
                                       width, height, planes)
         IN  /\ bmp' = r.bmp
             /\ bpc' = "made"
    /\ bop' = "from_contiguous_data"
    /\ UNCHANGED << nonbmpvars, prev, px, plane_map, plane_req, dest, blt, packed, bmp2 >>

\* from_file hands over the biSizeImage bytes of a .BMP: height scanlines of
\* the 4-byte-aligned stride of the bit depth.
FromPackedData ==
    /\ bpc = "start"
    /\ \E width \in Widths, height \in Heights, planes \in {1, 2, 4, MaxPlanes},
          seed \in 1..NumPatterns :
         LET r == from_packed_data(
                      PatternData(seed, Align4(div_ceil(width * planes, 8)) * height),
                      width, height, planes)
         IN  /\ bmp' = r.bmp
             /\ bpc' = IF r.ok THEN "made" ELSE "panic"
    /\ bop' = "from_packed_data"
    /\ UNCHANGED << nonbmpvars, prev, px, plane_map, plane_req, dest, blt, packed, bmp2 >>

\* The plane maps tried: the mask replicated into four planes, plane 0 alone,
\* the last plane before plane 0, and a map that names a plane the source
\* does not have.
PlaneMaps(b) == {<< 0, 0, 0, 0 >>, << 0 >>, << b.planes - 1, 0 >>, << b.planes >>}

FromSwizzle ==
    /\ bpc = "made"
    /\ \E pm \in PlaneMaps(bmp) :
         LET r == from_swizzle(bmp, pm)
         IN  /\ bmp' = r.bmp
             /\ plane_map' = pm
             /\ bpc' = IF r.ok THEN "swizzled" ELSE "panic"
    /\ prev' = bmp
    /\ bop' = "from_swizzle"
    /\ UNCHANGED << nonbmpvars, px, plane_req, dest, blt, packed, bmp2 >>

Pset ==
    /\ bpc = "made"
    /\ \E x \in 0..(bmp.width - 1), y \in 0..(bmp.height - 1),
          value \in PixelValues(bmp.planes) :
         LET r == pset(bmp, x, y, value)
         IN  /\ bmp' = r.bmp
             /\ prev' = bmp
             /\ px' = [x |-> x, y |-> y, value |-> value]
             /\ bpc' = IF r.ok THEN "set" ELSE "panic"
    /\ bop' = "pset"
    /\ UNCHANGED << nonbmpvars, plane_map, plane_req, dest, blt, packed, bmp2 >>

\* get_plane_data of a rectangle inside the bitmap, of its first or last plane.
GetPlaneData ==
    /\ bpc = "made"
    /\ \E plane \in {0, bmp.planes - 1},
          x \in 0..(bmp.width - 1), y \in 0..(bmp.height - 1),
          w \in 1..bmp.width, h \in 1..bmp.height :
         /\ x + w <= bmp.width
         /\ y + h <= bmp.height
         /\ LET r == get_plane_data(bmp, plane, x, y, w, h)
            IN  /\ plane_req' = [plane |-> plane, x |-> x, y |-> y, w |-> w, h |-> h,
                                 bytes |-> r.bytes]
                /\ bpc' = IF r.ok THEN "plane" ELSE "panic"
    /\ bop' = "get_plane_data"
    /\ UNCHANGED << nonbmpvars, bmp, prev, px, plane_map, dest, blt, packed, bmp2 >>

\* The extractors make the bitmap they blit into with new: as wide as the
\* source or twice as wide (image and mask side by side), as high or a
\* multiple as high (a filmstrip of frames), of the planes of the source or
\* of 4 planes.
NewDest ==
    /\ bpc = "made"
    /\ \E width \in {bmp.width, 2 * bmp.width}, height \in {bmp.height, 2 * bmp.height},
          planes \in {bmp.planes, 4} :
         LET r == new(width, height, planes)
         IN  /\ dest' = r.bmp
             /\ bpc' = IF r.ok THEN "dest" ELSE "panic"
    /\ bop' = "new"
    /\ UNCHANGED << nonbmpvars, bmp, prev, px, plane_map, plane_req, blt, packed, bmp2 >>

\* dest.blit(bmp, x, y), at the left or right half and at the first or
\* second frame.
Blit ==
    /\ bpc \in {"dest", "blitted"}
    /\ blt.n < MaxBlits
    /\ \E x \in {0, bmp.width}, y \in {0, bmp.height} :
         LET r == blit(dest, bmp, x, y)
         IN  /\ dest' = r.bmp
             /\ blt' = [x |-> x, y |-> y, before |-> dest, n |-> blt.n + 1]
             /\ bpc' = IF r.ok THEN "blitted" ELSE "panic"
    /\ bop' = "blit"
    /\ UNCHANGED << nonbmpvars, bmp, prev, px, plane_map, plane_req, packed, bmp2 >>

\* save_as_bpp at the depth of the bitmap.
SaveAsBpp ==
    /\ bpc \in {"made", "swizzled", "set"}
    /\ bmp.planes \in {1, 4, MaxPlanes}
    /\ LET r == save_as_bpp(bmp, bmp.planes)
       IN  /\ packed' = r.bytes
           /\ bpc' = IF r.ok THEN "saved" ELSE "panic"
    /\ bop' = "save_as_bpp"
    /\ UNCHANGED << nonbmpvars, bmp, prev, px, plane_map, plane_req, dest, blt, bmp2 >>

\* The scanlines written are read back at the size and depth of the header.
ReadBack ==
    /\ bpc = "saved"
    /\ LET r == from_packed_data(packed, bmp.width, bmp.height, bmp.planes)
       IN  /\ bmp2' = r.bmp
           /\ bpc' = IF r.ok THEN "reread" ELSE "panic"
    /\ bop' = "from_packed_data"
    /\ UNCHANGED << nonbmpvars, bmp, prev, px, plane_map, plane_req, dest, blt, packed >>

BmpNext ==
    \/ New
    \/ FromContiguousData
    \/ FromPackedData
    \/ FromSwizzle
    \/ Pset
    \/ GetPlaneData
    \/ NewDest
    \/ Blit
    \/ SaveAsBpp
    \/ ReadBack

(***************************************************************************)
(* Saving a bitmap as a .BMP file.  The images are those the extractors    *)
(* make with from_contiguous_data, of widths that fill whole bytes; the    *)
(* palettes have 2 or 16 colours.                                          *)
(***************************************************************************)
FileWidths == {8, 16}

\* Alternating 0xAA, 0x55.
StripeData(len) == [k \in 1..len |-> IF k % 2 = 1 THEN 170 ELSE 85]

\* n colours from black (entry 0) through white (entry 1).
PaletteOf(n) ==
    [k \in 1..n |-> [r |-> ((k - 1) * 255) % 256,
                     g |-> ((k - 1) * (k - 1) * 255) % 256,
                     b |-> ((k - 1) * (k - 1) * (k - 1) * 255) % 256]]

nonbfvars ==
    << datvars, bmpvars, palvars, lexvars, hdrvars, flvars, xdvars,
       ptvars, gsvars,
       crvars >>

NonBmpFileIdle ==
    DatIdle /\ BmpIdle /\ PalIdle /\ LexIdle /\ HdrIdle /\ FlushIdle /\ ExtractDatIdle
        /\ PalTextIdle /\ CreateIdle
        /\ CreateSetIdle

BmpFileInit ==
    /\ NonBmpFileIdle
    /\ fpc = "start" /\ BmpFileBlank

MakeImage ==
    /\ fpc = "start"
    /\ \E width \in FileWidths, height \in Heights, planes \in {1, 4},
          num_colours \in {2, 16} :
         LET len == ((width * height) \div 8) * planes
         IN  \E d \in {PatternData(seed, len) : seed \in 1..NumPatterns}
                         \cup {StripeData(len)} :
                /\ image' = from_contiguous_data(d, width, height, planes).bmp
                /\ palette' = PaletteOf(num_colours)
    /\ fpc' = "made"
    /\ UNCHANGED << nonbfvars, bpp, bfile >>

SaveFile ==
    /\ fpc = "made"
    /\ \E depth \in {1, 4, 8} :
         LET r == save_as_bpp_file(image, palette, depth)
         IN  /\ bpp' = depth
             /\ bfile' = r.bytes
             /\ fpc' = IF r.ok THEN "saved" ELSE "panic"
    /\ UNCHANGED << nonbfvars, image, palette >>

BmpFileNext ==
    \/ MakeImage
    \/ SaveFile

(***************************************************************************)
(* Palette construction: set_ega_data and set_vga_data turn the bytes of   *)
(* the palette block into colours, one ega_rgb or vga_rgb call per entry.  *)
(***************************************************************************)
EgaBytes == 0..255

\* VGA channel values: the ends and the thirds of the 6-bit range, and the
\* first value past it.
VgaLevels == {0, 1, 21, 42, 63, 64}

nonpalvars ==
    << datvars, bmpvars, bfvars, lexvars, hdrvars, flvars, xdvars,
       ptvars, gsvars,
       crvars >>

NonPalIdle ==
    DatIdle /\ BmpIdle /\ BmpFileIdle /\ LexIdle /\ HdrIdle /\ FlushIdle /\ ExtractDatIdle
        /\ PalTextIdle /\ CreateIdle
        /\ CreateSetIdle

PalInit ==
    /\ NonPalIdle
    /\ cpc = "start" /\ colour_in = <<>> /\ colour = NoColour

EgaRgb ==
    /\ cpc = "start"
    /\ \E val \in EgaBytes :
         /\ colour_in' = << val >>
         /\ colour' = ega_rgb(val)
    /\ cpc' = "ega"
    /\ UNCHANGED nonpalvars

VgaRgb ==
    /\ cpc = "start"
    /\ \E r \in VgaLevels, g \in VgaLevels, b \in VgaLevels :
         \E c \in vga_rgb(r, g, b) :
            /\ colour_in' = << r, g, b >>
            /\ colour' = c.colour
            /\ cpc' = IF c.ok THEN "vga" ELSE "panic"
    /\ UNCHANGED nonpalvars

PalNext ==
    \/ EgaRgb
    \/ VgaRgb

(***************************************************************************)
(* The lexer and a caller that makes any sequence of next_token,           *)
(* peek_token and unget_token calls on a text.                             *)
(***************************************************************************)
Chars == {"a", "1", "_", "-", "\"", "=", "/", " ", "\n"}

Texts == UNION { [1..n -> Chars] : n \in 0..MaxTextLen }

nonlexvars ==
    << datvars, bmpvars, bfvars, palvars, hdrvars, flvars, xdvars,
       ptvars, gsvars,
       crvars >>

NonLexIdle ==
    DatIdle /\ BmpIdle /\ BmpFileIdle /\ PalIdle /\ HdrIdle /\ FlushIdle /\ ExtractDatIdle
        /\ PalTextIdle /\ CreateIdle
        /\ CreateSetIdle

\* Lexer::from_str on a text.
LexInit ==
    /\ NonLexIdle
    /\ lpc = "ready"
    /\ text \in Texts
    /\ offset = 0 /\ line = 1 /\ buffered_token = NoToken
    /\ last = [NoCall EXCEPT !.op = "from_str"]
    /\ toks = <<>> /\ lookahead = FALSE
    /\ seen_none = FALSE /\ after_none = FALSE

CallOf(op, ret, failed) ==
    [op |-> op, ret |-> ret, before |-> buffered_token, from |-> offset,
     start |-> eat_whitespace(text, offset), refused |-> failed,
     prevop |-> last.op]

NextToken ==
    /\ lpc = "ready"
    /\ LET r == next_token(text, offset, line)
       IN  /\ offset' = r.offset
           /\ line' = r.line
           /\ lpc' = IF r.res = "ok" THEN "ready" ELSE r.res
           /\ last' = CallOf("next", r.tok, FALSE)
           /\ toks' = IF r.res = "ok" /\ r.tok # NoToken
                      THEN Append(toks, r.tok) ELSE toks
           /\ seen_none' = (seen_none \/ (r.res = "ok" /\ r.tok = NoToken))
    /\ after_none' = seen_none
    /\ UNCHANGED << text, buffered_token, lookahead >>
    /\ UNCHANGED nonlexvars

PeekToken ==
    /\ lpc = "ready"
    /\ IF buffered_token # NoToken
       THEN /\ lpc' = "panic"
            /\ last' = CallOf("peek", NoToken, TRUE)
            /\ UNCHANGED << offset, line, buffered_token >>
       ELSE LET r == next_token(text, offset, line)
            IN  /\ offset' = r.offset
                /\ line' = r.line
                /\ lpc' = IF r.res = "ok" THEN "ready" ELSE r.res
                /\ buffered_token' = r.tok
                /\ last' = CallOf("peek", r.tok, FALSE)
    /\ lookahead' = TRUE
    /\ after_none' = seen_none
    /\ UNCHANGED << text, toks, seen_none >>
    /\ UNCHANGED nonlexvars

\* The caller hands back the token it has just read.
UngetToken ==
    /\ lpc = "ready"
    /\ last.op = "next" /\ last.ret # NoToken
    /\ IF buffered_token # NoToken
       THEN /\ lpc' = "panic"
            /\ last' = CallOf("unget", NoToken, TRUE)
            /\ UNCHANGED buffered_token
       ELSE /\ lpc' = "ready"
            /\ buffered_token' = last.ret
            /\ last' = CallOf("unget", last.ret, FALSE)
    /\ lookahead' = TRUE
    /\ after_none' = seen_none
    /\ UNCHANGED << text, offset, line, toks, seen_none >>
    /\ UNCHANGED nonlexvars

LexNext ==
    \/ NextToken
    \/ PeekToken
    \/ UngetToken

(***************************************************************************)
(* Headers: one is made, written, and read back from the bytes written.    *)
(***************************************************************************)
\* Values of the fields the derived preview_frame_number depends on.
OffsetValues == {0, 1, 300, 65535}

FrameSizes == {0, 1, 7, 300}

FrameNumbers == {0, 1, 42, 255}

\* Values of the other fields: all zero, a different value in every byte
\* of the header, or all ones.
Fills == {"zero", "distinct", "ones"}

FillU8(fill, k) ==
    IF fill = "zero" THEN 0 ELSE IF fill = "ones" THEN 255 ELSE 2 * k

FillU16(fill, k) ==
    IF fill = "zero" THEN 0 ELSE IF fill = "ones" THEN 65535
    ELSE (256 * ((2 * k) + 1)) + (2 * k)

TerrainHeaders ==
    [width : {0, 1, 255}, height : {0, 2, 255},
     gfx_offset : {0, 772, 65535}, mask_offset : {0, 1286, 65535},
     unknown1 : {0, 1800, 65535}]

ObjectHeaders ==
    { [animation_flags |-> FillU16(fill, 1),
       frame_start |-> FillU8(fill, 2),
       frame_end |-> FillU8(fill, 3),
       width |-> FillU8(fill, 4),
       height |-> FillU8(fill, 5),
       animation_frame_data_size |-> size,
       mask_offset |-> FillU16(fill, 7),
       unknown0 |-> FillU16(fill, 8),
       unknown1 |-> FillU16(fill, 9),
       trigger_x |-> FillU16(fill, 10),
       trigger_y |-> FillU16(fill, 11),
       trigger_w |-> FillU8(fill, 12),
       trigger_h |-> FillU8(fill, 13),
       trigger_effect_id |-> FillU8(fill, 14),
       animation_offset |-> ao,
       preview_frame_offset |-> pfo,
       preview_frame_number |-> pfn,
       unknown2 |-> FillU16(fill, 18),
       trap_sound |-> FillU8(fill, 19)] :
      fill \in Fills, size \in FrameSizes, ao \in OffsetValues,
      pfo \in OffsetValues, pfn \in FrameNumbers }

nonhdrvars ==
    << datvars, bmpvars, bfvars, palvars, lexvars, flvars, xdvars,
       ptvars, gsvars,
       crvars >>

NonHdrIdle ==
    DatIdle /\ BmpIdle /\ BmpFileIdle /\ PalIdle /\ LexIdle /\ FlushIdle /\ ExtractDatIdle
        /\ PalTextIdle /\ CreateIdle
        /\ CreateSetIdle

HdrInit ==
    /\ NonHdrIdle
    /\ hpc = "start" /\ HdrBlank

MakeTerrainHeader ==
    /\ hpc = "start"
    /\ header' \in TerrainHeaders
    /\ hpc' = "terrain"
    /\ UNCHANGED << hbytes, header2 >>
    /\ UNCHANGED nonhdrvars

MakeObjectHeader ==
    /\ hpc = "start"
    /\ header' \in ObjectHeaders
    /\ hpc' = "object"
    /\ UNCHANGED << hbytes, header2 >>
    /\ UNCHANGED nonhdrvars

TerrainHeaderWrite ==
    /\ hpc = "terrain"
    /\ hbytes' = TerrainHeader_write(header)
    /\ hpc' = "terrain_written"
    /\ UNCHANGED << header, header2 >>
    /\ UNCHANGED nonhdrvars

TerrainHeaderRead ==
    /\ hpc = "terrain_written"
    /\ header2' = TerrainHeader_read(hbytes)
    /\ hpc' = "terrain_read"
    /\ UNCHANGED << header, hbytes >>
    /\ UNCHANGED nonhdrvars

ObjectHeaderWrite ==
    /\ hpc = "object"
    /\ hbytes' = ObjectHeader_write(header)
    /\ hpc' = "object_written"
    /\ UNCHANGED << header, header2 >>
    /\ UNCHANGED nonhdrvars

ObjectHeaderRead ==
    /\ hpc = "object_written"
    /\ \E r \in ObjectHeader_read(hbytes) :
         /\ header2' = r.oh
         /\ hpc' = IF r.ok THEN "object_read" ELSE "panic"
    /\ UNCHANGED << header, hbytes >>
    /\ UNCHANGED nonhdrvars

HdrNext ==
    \/ MakeTerrainHeader
    \/ MakeObjectHeader
    \/ TerrainHeaderWrite
    \/ TerrainHeaderRead
    \/ ObjectHeaderWrite
    \/ ObjectHeaderRead

(***************************************************************************)
(* from_data step by step.  The inputs are the short sequences over two    *)
(* byte values, encoded from the start, and long runs without a repeated   *)
(* pair of bytes: such a run has no match anywhere, so the main loop only  *)
(* counts i up to uncomp_size and leaves all of it to the final flush,     *)
(* where the run starts.                                                   *)
(***************************************************************************)
\* n bytes in which no two adjacent bytes occur twice: 0, 1, ..., 255 and
\* then 2, 4, 6, ...
Spread(n) == [k \in 1..n |-> IF k <= 256 THEN k - 1 ELSE (2 * (k - 256)) % 256]

LiteralRuns == {Spread(n) : n \in 1..MaxRun}

RunBytes == {0, 1}

ShortInputs == SeqsUpTo(RunBytes, MaxRunLen)

nonflvars ==
    << datvars, bmpvars, bfvars, palvars, lexvars, hdrvars, xdvars,
       ptvars, gsvars,
       crvars >>

NonFlushIdle ==
    DatIdle /\ BmpIdle /\ BmpFileIdle /\ PalIdle /\ LexIdle /\ HdrIdle /\ ExtractDatIdle
        /\ PalTextIdle /\ CreateIdle
        /\ CreateSetIdle

EncInit ==
    /\ NonFlushIdle
    /\ \/ \E d \in ShortInputs :
            /\ wpc = "loop"
            /\ ws = InitialCursor(Len(d))
            /\ lit = [NoRun EXCEPT !.data = d]
       \/ \E d \in LiteralRuns :
            /\ wpc = "flush"
            /\ ws = InitialCursor(Len(d))
            /\ lit = [NoRun EXCEPT !.data = d, !.i = Len(d)]

\* One iteration of `while i < uncomp_size` in which the search finds
\* nothing: `i += 1`.
LoopLiteral ==
    /\ wpc = "loop"
    /\ lit.i < Len(lit.data)
    /\ LET m == Search(lit.data, Len(lit.data), lit.i)
       IN  /\ ~have_match(m)
           /\ lit' = [lit EXCEPT !.i = lit.i + 1, !.m = m, !.have_match = FALSE]
    /\ UNCHANGED << wpc, ws >>
    /\ UNCHANGED nonflvars

\* One iteration in which have_match is set: on to the literal flush.
LoopMatch ==
    /\ wpc = "loop"
    /\ lit.i < Len(lit.data)
    /\ LET m == Search(lit.data, Len(lit.data), lit.i)
       IN  /\ have_match(m)
           /\ lit' = [lit EXCEPT !.m = m, !.have_match = TRUE]
    /\ wpc' = "flush"
    /\ UNCHANGED ws
    /\ UNCHANGED nonflvars

\* `while i < uncomp_size` fails: on to the final flush.
LoopEnd ==
    /\ wpc = "loop"
    /\ ~(lit.i < Len(lit.data))
    /\ lit' = [lit EXCEPT !.have_match = FALSE]
    /\ wpc' = "flush"
    /\ UNCHANGED ws
    /\ UNCHANGED nonflvars

\* `while last_uncomp_off < i` holds: the length of the next literal.
ChunkStart ==
    /\ wpc = "flush"
    /\ lit.last_uncomp_off < lit.i
    /\ lit' = [lit EXCEPT !.uncomp_len = Min(lit.i - lit.last_uncomp_off, MaxLiteral),
                          !.b = 0]
    /\ wpc' = "bytes"
    /\ UNCHANGED ws
    /\ UNCHANGED nonflvars

\* One iteration of `for b in 0..uncomp_len`.
LiteralByte ==
    /\ wpc = "bytes"
    /\ lit.b < lit.uncomp_len
    /\ ws' = add_bits(ws, 8, lit.data[lit.last_uncomp_off + lit.b + 1])
    /\ lit' = [lit EXCEPT !.b = lit.b + 1]
    /\ wpc' = IF ws'.panicked THEN "panic" ELSE "bytes"
    /\ UNCHANGED nonflvars

\* After the bytes: the length and the prefix of the literal, then
\* `last_uncomp_off += uncomp_len`.
ChunkEnd ==
    /\ wpc = "bytes"
    /\ lit.b = lit.uncomp_len
    /\ ws' = IF lit.uncomp_len <= ShortLiteralMax
             THEN Emit(add_bits(add_bits(ws, 3, lit.uncomp_len - 1), 2, 0),
                       [kind |-> "lit_short", at |-> lit.last_uncomp_off,
                        len |-> lit.uncomp_len, off |-> 0])
             ELSE Emit(add_bits(add_bits(ws, 8, lit.uncomp_len - 9), 3, 7),
                       [kind |-> "lit_long", at |-> lit.last_uncomp_off,
                        len |-> lit.uncomp_len, off |-> 0])
    /\ lit' = [lit EXCEPT !.last_uncomp_off = lit.last_uncomp_off + lit.uncomp_len]
    /\ wpc' = IF ws'.panicked THEN "panic" ELSE "flush"
    /\ UNCHANGED nonflvars

\* The flush before a match has ended: the match, `i += longest_len` and
\* `last_uncomp_off = i`.
MatchStep ==
    /\ wpc = "flush"
    /\ ~(lit.last_uncomp_off < lit.i)
    /\ lit.have_match
    /\ ws' = EmitMatch(ws, lit.i, lit.m)
    /\ lit' = [lit EXCEPT !.i = lit.i + MatchAdvance(lit.m),
                          !.last_uncomp_off = lit.i + MatchAdvance(lit.m),
                          !.have_match = FALSE]
    /\ wpc' = IF ws'.panicked THEN "panic" ELSE "loop"
    /\ UNCHANGED nonflvars

\* The flush after the main loop has ended.
FlushDone ==
    /\ wpc = "flush"
    /\ ~(lit.last_uncomp_off < lit.i)
    /\ ~lit.have_match
    /\ wpc' = "flushed"
    /\ UNCHANGED << ws, lit >>
    /\ UNCHANGED nonflvars

EncNext ==
    \/ LoopLiteral
    \/ LoopMatch
    \/ LoopEnd
    \/ ChunkStart
    \/ LiteralByte
    \/ ChunkEnd
    \/ MatchStep
    \/ FlushDone

(***************************************************************************)
(* extract_dat on a file of sections.  Each section was written by         *)
(* from_data and write; in a damaged one the checksum byte or the          *)
(* comp_size field has since changed.                                      *)
(***************************************************************************)
Damaged(f) == [f EXCEPT ![2] = (f[2] + 1) % 256]

Shrunk(f) == SubSeq(f, 1, 6) \o write_be32(HeaderSize - 1) \o SubSeq(f, 11, Len(f))

SectionData == {[k \in 1..n |-> 90] : n \in 1..MaxSectionLen}

SectionFiles ==
    LET good == {write(StructOf(from_data(d, Len(d)))) : d \in SectionData}
    IN  good \cup {Damaged(f) : f \in good} \cup {Shrunk(f) : f \in good}


DatFiles == {Concat(fs) : fs \in SeqsUpTo(SectionFiles, MaxSections)}

nonxdvars ==
    << datvars, bmpvars, bfvars, palvars, lexvars, hdrvars, flvars, ptvars, gsvars,
       crvars >>

NonExtractDatIdle ==
    DatIdle /\ BmpIdle /\ BmpFileIdle /\ PalIdle /\ LexIdle /\ HdrIdle /\ FlushIdle
        /\ PalTextIdle /\ CreateIdle
        /\ CreateSetIdle

ExtractDatInit ==
    /\ NonExtractDatIdle
    /\ xpc = "loop"
    /\ dat \in DatFiles
    /\ pos = 0 /\ section_num = 0 /\ written = <<>> /\ err = "none"

\* One iteration of the loop with `Ok(mut header)`: the section is
\* decompressed and written to name.{section_num:03}.
ExtractSection ==
    /\ xpc = "loop"
    /\ LET f == SubSeq(dat, pos + 1, Len(dat))
       IN  \E r \in from_file(f) :
             /\ r.kind = "ok"
             /\ \E d \in decompress(r.sec) :
                  IF d.ok
                  THEN /\ written' = Append(written, [num |-> section_num, at |-> pos,
                                                      data |-> d.output])
                       /\ pos' = pos + SectionBytes(f)
                       /\ section_num' = section_num + 1
                       /\ xpc' = "loop"
                  ELSE /\ xpc' = "panic"
                       /\ UNCHANGED << written, pos, section_num >>
    /\ UNCHANGED << dat, err >>
    /\ UNCHANGED nonxdvars

\* `Err(__) => break`: the loop ends and extract_dat returns.
ExtractBreak ==
    /\ xpc = "loop"
    /\ \E r \in from_file(SubSeq(dat, pos + 1, Len(dat))) :
         /\ r.kind \in {"io", "checksum invalid"}
         /\ err' = r.kind
    /\ xpc' = "done"
    /\ UNCHANGED << dat, pos, section_num, written >>
    /\ UNCHANGED nonxdvars

\* from_file panics.
ExtractPanic ==
    /\ xpc = "loop"
    /\ \E r \in from_file(SubSeq(dat, pos + 1, Len(dat))) : r.kind = "panic"
    /\ xpc' = "panic"
    /\ UNCHANGED << dat, pos, section_num, written, err >>
    /\ UNCHANGED nonxdvars

ExtractDatNext ==
    \/ ExtractSection
    \/ ExtractBreak
    \/ ExtractPanic

(***************************************************************************)
(* A palette block from the header file through extract_graphics_set       *)
(* (Palettes::read, then `Palettes = {}` written with Display) and         *)
(* create_graphics_set (Palettes::parse, then Palettes::write).            *)
(***************************************************************************)
\* Blocks whose byte k is base + k * step (mod 256).
PaletteBlocks ==
    { [k \in 1..PaletteBlockSize |-> (base + (k * step)) % 256] :
        base \in 0..(NumPalBases - 1), step \in 0..(NumPalSteps - 1) }

nonptvars ==
    << datvars, bmpvars, bfvars, palvars, lexvars, hdrvars, flvars, xdvars,
       gsvars,
       crvars >>

NonPalTextIdle ==
    DatIdle /\ BmpIdle /\ BmpFileIdle /\ PalIdle /\ LexIdle /\ HdrIdle /\ FlushIdle
        /\ ExtractDatIdle /\ CreateIdle
        /\ CreateSetIdle

PalTextInit ==
    /\ NonPalTextIdle
    /\ ppc = "block"
    /\ raw_pal \in PaletteBlocks
    /\ pal = Palettes_default
    /\ plx = LexerOf(<<>>) /\ pn = 0 /\ pi = 0 /\ pal_out = <<>>

\* extract: Palettes::read.
PalettesRead ==
    /\ ppc = "block"
    /\ pal' = Palettes_read(raw_pal)
    /\ ppc' = "read"
    /\ UNCHANGED << raw_pal, plx, pn, pi, pal_out >>
    /\ UNCHANGED nonptvars

\* extract: the Display text goes to the script; create: the lexer is made
\* over it and Palettes::parse starts with Palettes::default and
\* expect_symbol('{').
PalettesParseStart ==
    /\ ppc = "read"
    /\ plx' = expect_symbol(LexerOf(Palettes_fmt(pal)), "{")
    /\ pal' = Palettes_default
    /\ ppc' = IF plx'.ok THEN "names" ELSE "panic"
    /\ UNCHANGED << raw_pal, pn, pi, pal_out >>
    /\ UNCHANGED nonptvars

\* `loop`: an Ident, '=', the name of an array and its '{'.
PalettesParseName ==
    /\ ppc = "names"
    /\ LET r == NextOf(plx)
       IN  /\ r.tok.kind = "Ident"
           /\ LET l1 == expect_symbol(r.lx, "=")
                  known == \E n \in 1..6 : PaletteNames[n] = r.tok.text
                  l2 == expect_symbol(l1, "{")
              IN  /\ plx' = l2
                  /\ pn' = IF known
                           THEN CHOOSE n \in 1..6 : PaletteNames[n] = r.tok.text
                           ELSE 0
                  /\ ppc' = IF known /\ l2.ok THEN "entries" ELSE "panic"
    /\ pi' = 0
    /\ UNCHANGED << raw_pal, pal, pal_out >>
    /\ UNCHANGED nonptvars

\* One iteration of `for i in 0..8`.
PalettesParseEntry ==
    /\ ppc = "entries"
    /\ pi < 8
    /\ LET e == ParseEntry(plx, pal[pn], pn, pi)
       IN  /\ plx' = e.lx
           /\ pal' = IF e.lx.ok THEN [pal EXCEPT ![pn] = e.a] ELSE pal
           /\ ppc' = IF e.lx.ok THEN "entries" ELSE "panic"
    /\ pi' = pi + 1
    /\ UNCHANGED << raw_pal, pn, pal_out >>
    /\ UNCHANGED nonptvars

\* After the loop: expect_symbol('}').
PalettesParseArrayEnd ==
    /\ ppc = "entries"
    /\ pi = 8
    /\ plx' = expect_symbol(plx, "}")
    /\ ppc' = IF plx'.ok THEN "names" ELSE "panic"
    /\ UNCHANGED << raw_pal, pal, pn, pi, pal_out >>
    /\ UNCHANGED nonptvars

\* `loop`: Symbol('}') ends the parse; any other token that is not an Ident
\* (or none) panics.
PalettesParseEnd ==
    /\ ppc = "names"
    /\ LET r == NextOf(plx)
       IN  /\ r.tok.kind # "Ident"
           /\ plx' = r.lx
           /\ ppc' = IF r.lx.ok /\ r.tok = Symbol("}") THEN "parsed" ELSE "panic"
    /\ UNCHANGED << raw_pal, pal, pn, pi, pal_out >>
    /\ UNCHANGED nonptvars

\* create: pal.write.
PalettesWrite ==
    /\ ppc = "parsed"
    /\ pal_out' = Palettes_write(pal)
    /\ ppc' = "written"
    /\ UNCHANGED << raw_pal, pal, plx, pn, pi >>
    /\ UNCHANGED nonptvars

PalTextNext ==
    \/ PalettesRead
    \/ PalettesParseStart
    \/ PalettesParseName
    \/ PalettesParseEntry
    \/ PalettesParseArrayEnd
    \/ PalettesParseEnd
    \/ PalettesWrite

(***************************************************************************)
(* The Terrain and Object arms of create_graphics_set on loaded bitmaps    *)
(* and parsed object blocks.                                               *)
(***************************************************************************)
EntryWidths == {8, 16}

\* A bitmap as PlanarBMP::from_file returns it: `planes` planes of
\* (width / 8) * height bytes each.
EntryBitmap(width, height, planes, seed) ==
    [width |-> width, height |-> height, pitch |-> width \div 8,
     planes |-> planes,
     data |-> [k \in 1..((width \div 8) * height * planes) |->
                 ((k * 37) + seed) % 256]]

EntryBitmaps ==
    {EntryBitmap(wd, ht, 4, 1) : wd \in EntryWidths, ht \in 1..MaxEntryHeight}

\* The mask file that goes with the bitmap b.
MaskFor(b) == EntryBitmap(b.width, b.height, 1, 129)

\* The blocks ObjectHeader::parse can return: `frames = (0, fe)`, and a
\* preview_frame of 1 where there are two frames or more.
ParsedHeaders ==
    { [ObjectHeader_default EXCEPT !.frame_end = fe,
                                   !.preview_frame_number = IF fe > 1 THEN 1 ELSE 0] :
        fe \in 0..MaxEntryHeight }

nongsvars ==
    << datvars, bmpvars, bfvars, palvars, lexvars, hdrvars, flvars, xdvars, ptvars,
       crvars >>

NonCreateIdle ==
    DatIdle /\ BmpIdle /\ BmpFileIdle /\ PalIdle /\ LexIdle /\ HdrIdle /\ FlushIdle
        /\ ExtractDatIdle /\ PalTextIdle
        /\ CreateSetIdle

EntriesInit ==
    /\ NonCreateIdle
    /\ gpc = "loop"
    /\ CreateBlank

PushTerrain ==
    /\ gpc = "loop"
    /\ Len(entries) < MaxEntries
    /\ \E b \in EntryBitmaps, has_mask \in BOOLEAN :
         LET r == TerrainEntry(terrain_data, b, has_mask, MaskFor(b))
         IN  /\ gpc' = IF r.ok THEN "loop" ELSE "panic"
             /\ terrain_data' = r.terrain_data
             /\ terrain_headers' = IF r.ok THEN Append(terrain_headers, r.header)
                                   ELSE terrain_headers
             /\ entries' = IF r.ok
                           THEN Append(entries, [kind |-> "Terrain", has_mask |-> has_mask,
                                                 index |-> Len(terrain_headers) + 1,
                                                 before |-> Len(terrain_data),
                                                 after |-> Len(r.terrain_data)])
                           ELSE entries
    /\ UNCHANGED << object_data, object_headers >>
    /\ UNCHANGED nongsvars

PushObject ==
    /\ gpc = "loop"
    /\ Len(entries) < MaxEntries
    /\ \E b \in EntryBitmaps, has_mask \in BOOLEAN, parsed \in ParsedHeaders :
         \E r \in ObjectEntry(object_data, b, has_mask, MaskFor(b), parsed) :
             /\ gpc' = IF r.ok THEN "loop" ELSE "panic"
             /\ object_data' = r.object_data
             /\ object_headers' = IF r.ok THEN Append(object_headers, r.header)
                                  ELSE object_headers
             /\ entries' = IF r.ok
                           THEN Append(entries, [kind |-> "Object", has_mask |-> has_mask,
                                                 index |-> Len(object_headers) + 1,
                                                 before |-> Len(object_data),
                                                 after |-> Len(r.object_data)])
                           ELSE entries
    /\ UNCHANGED << terrain_data, terrain_headers >>
    /\ UNCHANGED nongsvars

EntriesNext ==
    \/ PushTerrain
    \/ PushObject

(***************************************************************************)
(* create-set on a script, then extract-set on the files it wrote and      *)
(* create-set again on the script and bitmaps extract-set wrote.           *)
(***************************************************************************)
\* What cmd_extract_graphics_set writes before extract_graphics_set.
Prologue ==
    << "H", "e", "a", "d", "e", "r", "F", "i", "l", "e", " ", "\"", "g", "r", "o", "u", "n", "d", "0", "o", ".", "d", "a", "t", "\"", "\n" >>
      \o << "D", "a", "t", "a", "F", "i", "l", "e", " ", "\"", "v", "g", "a", "g", "r", "0", ".", "d", "a", "t", "\"", "\n", "\n" >>

TerrainName == FileName(ExtractSetOptions.terrain_filename_pattern, 0)
TerrainMaskName == FileName(ExtractSetOptions.terrain_mask_filename_pattern, 0)
ObjectName == FileName(ExtractSetOptions.object_filename_pattern, 0)
ObjectMaskName == FileName(ExtractSetOptions.object_mask_filename_pattern, 0)

\* The directives of a script, in the forms extract_graphics_set writes.
DirectiveKinds == {"Terrain", "TerrainMask", "Object", "ObjectMask", "Palettes"}

\* The palettes of the scripts.
ScriptPalettes == Palettes_read([k \in 1..PaletteBlockSize |-> k % 64])

\* The object block of the scripts: one frame.
ScriptObject == [ObjectHeader_default EXCEPT !.frame_end = 1]

DirectiveText(kind) ==
    IF kind = "Terrain"
    THEN << "T", "e", "r", "r", "a", "i", "n", " " >> \o Quoted(TerrainName) \o << "\n" >>
    ELSE IF kind = "TerrainMask"
    THEN << "T", "e", "r", "r", "a", "i", "n", " " >> \o Quoted(TerrainName) \o << " ", "M", "a", "s", "k", " " >> \o Quoted(TerrainMaskName)
           \o << "\n" >>
    ELSE IF kind = "Object"
    THEN << "O", "b", "j", "e", "c", "t", " " >> \o Quoted(ObjectName) \o << " ", "=", " " >>
           \o ObjectHeader_fmt(ScriptObject) \o << "\n" >>
    ELSE IF kind = "ObjectMask"
    THEN << "O", "b", "j", "e", "c", "t", " " >> \o Quoted(ObjectName) \o << " ", "M", "a", "s", "k", " " >> \o Quoted(ObjectMaskName)
           \o << " ", "=", " " >> \o ObjectHeader_fmt(ScriptObject) \o << "\n" >>
    ELSE << "P", "a", "l", "e", "t", "t", "e", "s", " ", "=", " " >> \o Palettes_fmt(ScriptPalettes) \o << "\n" >>

Scripts ==
    { Prologue \o Concat([k \in 1..Len(ds) |-> DirectiveText(ds[k])]) :
        ds \in SeqsUpTo(DirectiveKinds, MaxDirectives) }

\* A directory with a terrain and an object bitmap wd pixels wide and their
\* masks.
DiskOf(wd) ==
    {[name |-> TerrainName, bmp |-> [ok |-> TRUE, bmp |-> EntryBitmap(wd, 1, 4, 1)]],
     [name |-> TerrainMaskName, bmp |-> [ok |-> TRUE, bmp |-> EntryBitmap(wd, 1, 1, 129)]],
     [name |-> ObjectName, bmp |-> [ok |-> TRUE, bmp |-> EntryBitmap(wd, 1, 4, 65)]],
     [name |-> ObjectMaskName, bmp |-> [ok |-> TRUE, bmp |-> EntryBitmap(wd, 1, 1, 193)]]}

Disks == {DiskOf(wd) : wd \in EntryWidths}

\* `File::open(name).unwrap()` and `PlanarBMP::from_file(..).unwrap()`.
OpenBmp(d, name) ==
    IF \E e \in d : e.name = name
    THEN (CHOOSE e \in d : e.name = name).bmp
    ELSE [ok |-> FALSE, bmp |-> NoBmp]

noncrvars ==
    << datvars, bmpvars, bfvars, palvars, lexvars, hdrvars, flvars, xdvars >>

NonCreateSetIdle ==
    DatIdle /\ BmpIdle /\ BmpFileIdle /\ PalIdle /\ LexIdle /\ HdrIdle /\ FlushIdle
        /\ ExtractDatIdle

CreateSetInit ==
    /\ NonCreateSetIdle
    /\ gpc = "start" /\ CreateBlank
    /\ ppc = "idle" /\ raw_pal = <<>> /\ pal = Palettes_default
    /\ pn = 0 /\ pi = 0 /\ pal_out = <<>>
    /\ \E script \in Scripts : plx = LexerOf(script)
    /\ peeked = NoToken
    /\ disk \in Disks
    /\ outfiles = NoFiles /\ round = 1 /\ original = NoFiles

\* create_graphics_set up to `loop`.
CreateStart ==
    /\ gpc = "start"
    /\ \E header_filename \in {get_string_literal(expect_ident(plx, << "H", "e", "a", "d", "e", "r", "F", "i", "l", "e" >>))} :
       \E data_filename \in {get_string_literal(expect_ident(header_filename.lx, << "D", "a", "t", "a", "F", "i", "l", "e" >>))} :
         /\ plx' = data_filename.lx
         /\ gpc' = IF data_filename.lx.ok THEN "loop" ELSE "panic"
    /\ terrain_data' = <<>> /\ object_data' = <<>>
    /\ terrain_headers' = <<>> /\ object_headers' = <<>> /\ entries' = <<>>
    /\ pal' = Palettes_default
    /\ UNCHANGED << ppc, raw_pal, pn, pi, pal_out >>
    /\ UNCHANGED crvars
    /\ UNCHANGED noncrvars

\* The file names of a Terrain or Object directive: the string literal,
\* is_next_ident("Mask"), and when it is true next_token (the keyword is to
\* be discarded) and the string literal of the mask.
NamesOf(fname, p, mask_fname) ==
    [lx |-> mask_fname.lx,
     peeked |-> p.peeked,
     fname |-> fname.val,
     has_mask |-> p.val,
     mask_fname |-> mask_fname.val]

MaskName(fname, p) ==
    NamesOf(fname, p,
            IF p.val THEN get_string_literal(NextOf(p.lx).lx)
            ELSE [lx |-> p.lx, val |-> <<>>])

FileNames(fname, pk) ==
    MaskName(fname, is_next_ident(fname.lx, pk, << "M", "a", "s", "k" >>))

DirectiveNames(lx, pk) == FileNames(get_string_literal(lx), pk)

\* `loop`: the Terrain arm.
CreateTerrain ==
    /\ gpc = "loop" /\ ppc = "idle"
    /\ \E entry_type \in {NextOf(plx)} :
         /\ entry_type.lx.ok
         /\ entry_type.tok = Ident(<< "T", "e", "r", "r", "a", "i", "n" >>)
         /\ \E n \in {DirectiveNames(entry_type.lx, peeked)} :
            \E terrain_bmp \in {OpenBmp(disk, n.fname)} :
            \E mask_bmp \in {IF n.has_mask THEN OpenBmp(disk, n.mask_fname)
                             ELSE [ok |-> TRUE, bmp |-> NoBmp]} :
            \E r \in {TerrainEntry(terrain_data, terrain_bmp.bmp, n.has_mask,
                                   mask_bmp.bmp)} :
            \E ok \in {n.lx.ok /\ terrain_bmp.ok /\ mask_bmp.ok /\ r.ok} :
              /\ plx' = n.lx
              /\ peeked' = n.peeked
              /\ gpc' = IF ok THEN "loop" ELSE "panic"
              /\ terrain_data' = IF ok THEN r.terrain_data ELSE terrain_data
              /\ terrain_headers' = IF ok THEN Append(terrain_headers, r.header)
                                    ELSE terrain_headers
              /\ entries' = IF ok
                            THEN Append(entries,
                                   [kind |-> "Terrain", has_mask |-> n.has_mask,
                                    index |-> Len(terrain_headers) + 1,
                                    before |-> Len(terrain_data),
                                    after |-> Len(r.terrain_data)])
                            ELSE entries
    /\ UNCHANGED << object_data, object_headers >>
    /\ UNCHANGED << ppc, raw_pal, pal, pn, pi, pal_out >>
    /\ UNCHANGED << disk, outfiles, round, original >>
    /\ UNCHANGED noncrvars

\* `lexer.expect_symbol('=')` and ObjectHeader::parse, when the files were
\* opened.
ObjectBlock(files_ok, l1) ==
    IF files_ok /\ l1.ok THEN ObjectHeader_parse(l1)
    ELSE [lx |-> [l1 EXCEPT !.ok = FALSE], res |-> ObjectHeader_default]

\* `loop`: the Object arm.
CreateObject ==
    /\ gpc = "loop" /\ ppc = "idle"
    /\ \E entry_type \in {NextOf(plx)} :
         /\ entry_type.lx.ok
         /\ entry_type.tok = Ident(<< "O", "b", "j", "e", "c", "t" >>)
         /\ \E n \in {DirectiveNames(entry_type.lx, peeked)} :
            \E object_bmp \in {OpenBmp(disk, n.fname)} :
            \E mask_bmp \in {IF n.has_mask THEN OpenBmp(disk, n.mask_fname)
                             ELSE [ok |-> TRUE, bmp |-> NoBmp]} :
            \E object_header \in {ObjectBlock(n.lx.ok /\ object_bmp.ok /\ mask_bmp.ok,
                                              expect_symbol(n.lx, "="))} :
              /\ plx' = object_header.lx
              /\ peeked' = n.peeked
              /\ IF ~object_header.lx.ok
                 THEN /\ gpc' = "panic"
                      /\ UNCHANGED << object_data, object_headers, entries >>
                 ELSE \E r \in ObjectEntry(object_data, object_bmp.bmp, n.has_mask,
                                           mask_bmp.bmp, object_header.res) :
                        /\ gpc' = IF r.ok THEN "loop" ELSE "panic"
                        /\ object_data' = r.object_data
                        /\ object_headers' = IF r.ok
                                             THEN Append(object_headers, r.header)
                                             ELSE object_headers
                        /\ entries' = IF r.ok
                                      THEN Append(entries,
                                             [kind |-> "Object",
                                              has_mask |-> n.has_mask,
                                              index |-> Len(object_headers) + 1,
                                              before |-> Len(object_data),
                                              after |-> Len(r.object_data)])
                                      ELSE entries
    /\ UNCHANGED << terrain_data, terrain_headers >>
    /\ UNCHANGED << ppc, raw_pal, pal, pn, pi, pal_out >>
    /\ UNCHANGED << disk, outfiles, round, original >>
    /\ UNCHANGED noncrvars

\* `loop`: the Palettes arm up to the loop of Palettes::parse, which
\* PalettesParseName, PalettesParseEntry, PalettesParseArrayEnd and
\* PalettesParseEnd run.
CreatePalettes ==
    /\ gpc = "loop" /\ ppc = "idle"
    /\ \E entry_type \in {NextOf(plx)} :
         /\ entry_type.lx.ok
         /\ entry_type.tok = Ident(<< "P", "a", "l", "e", "t", "t", "e", "s" >>)
         /\ plx' = expect_symbol(expect_symbol(entry_type.lx, "="), "{")
         /\ pal' = Palettes_default
         /\ ppc' = IF plx'.ok THEN "names" ELSE "idle"
         /\ gpc' = IF plx'.ok THEN "loop" ELSE "panic"
    /\ UNCHANGED << raw_pal, pn, pi, pal_out >>
    /\ UNCHANGED << terrain_data, object_data, terrain_headers, object_headers, entries >>
    /\ UNCHANGED crvars
    /\ UNCHANGED noncrvars

\* Palettes::parse returns (`pal = Palettes::parse(lexer)`) or has panicked.
CreatePalettesReturn ==
    /\ gpc = "loop" /\ ppc \in {"parsed", "panic"}
    /\ gpc' = IF ppc = "parsed" THEN "loop" ELSE "panic"
    /\ ppc' = "idle"
    /\ UNCHANGED << raw_pal, pal, plx, pn, pi, pal_out >>
    /\ UNCHANGED << terrain_data, object_data, terrain_headers, object_headers, entries >>
    /\ UNCHANGED crvars
    /\ UNCHANGED noncrvars

\* `loop`: any other token, or next_token itself, panics.
CreateUnknown ==
    /\ gpc = "loop" /\ ppc = "idle"
    /\ \E entry_type \in {NextOf(plx)} :
         /\ \/ ~entry_type.lx.ok
            \/ entry_type.tok \notin {NoToken, Ident(<< "T", "e", "r", "r", "a", "i", "n" >>),
                                      Ident(<< "O", "b", "j", "e", "c", "t" >>),
                                      Ident(<< "P", "a", "l", "e", "t", "t", "e", "s" >>)}
         /\ plx' = entry_type.lx
    /\ gpc' = "panic"
    /\ UNCHANGED << ppc, raw_pal, pal, pn, pi, pal_out >>
    /\ UNCHANGED << terrain_data, object_data, terrain_headers, object_headers, entries >>
    /\ UNCHANGED crvars
    /\ UNCHANGED noncrvars

\* `None => break`, and the two files are written.
CreateFinish ==
    /\ gpc = "loop" /\ ppc = "idle"
    /\ \E entry_type \in {NextOf(plx)} :
         /\ entry_type.lx.ok
         /\ entry_type.tok = NoToken
         /\ plx' = entry_type.lx
    /\ \E out \in {CreateOutput(terrain_data, object_data, terrain_headers,
                                object_headers, pal)} :
         /\ gpc' = IF out.ok THEN "done" ELSE "panic"
         /\ outfiles' = IF out.ok THEN [header |-> out.header, data |-> out.data]
                        ELSE outfiles
    /\ UNCHANGED << ppc, raw_pal, pal, pn, pi, pal_out >>
    /\ UNCHANGED << terrain_data, object_data, terrain_headers, object_headers, entries >>
    /\ UNCHANGED << peeked, disk, round, original >>
    /\ UNCHANGED noncrvars

\* extract-set on the files of round 1; when it returns, create-set is
\* started on the script it wrote, in the directory with the bitmaps it wrote.
ExtractSet ==
    /\ gpc = "done" /\ round = 1
    /\ round' = 2
    /\ original' = outfiles
    /\ \E r \in extract_graphics_set(Prologue, outfiles.header, outfiles.data,
                                     ExtractSetOptions) :
         IF r.ok
         THEN /\ gpc' = "start"
              /\ plx' = LexerOf(r.script)
              /\ peeked' = NoToken
              /\ disk' = {e \in disk : \A f \in r.files : f.name # e.name}
                           \cup {[name |-> f.name, bmp |-> PlanarBMP_from_file(f.file)] :
                                   f \in r.files}
              /\ outfiles' = NoFiles
         ELSE /\ gpc' = "extract panic"
              /\ UNCHANGED << plx, peeked, disk, outfiles >>
    /\ UNCHANGED << ppc, raw_pal, pal, pn, pi, pal_out >>
    /\ UNCHANGED << terrain_data, object_data, terrain_headers, object_headers, entries >>
    /\ UNCHANGED noncrvars

CreateSetNext ==
    \/ CreateStart
    \/ CreateTerrain
    \/ CreateObject
    \/ CreatePalettes
    \/ PalettesParseName
    \/ PalettesParseEntry
    \/ PalettesParseArrayEnd
    \/ PalettesParseEnd
    \/ CreatePalettesReturn
    \/ CreateUnknown
    \/ CreateFinish
    \/ ExtractSet

vars ==
    << datvars, bmpvars, bfvars, palvars, lexvars, hdrvars, flvars, xdvars, ptvars,
       gsvars, crvars >>

Spec == CodecInit /\ [][CodecNext]_vars

SpecFile == FileInit /\ [][FileNext]_vars

SpecBmp == BmpInit /\ [][BmpNext]_vars

SpecBmpFile == BmpFileInit /\ [][BmpFileNext]_vars

SpecPal == PalInit /\ [][PalNext]_vars

SpecLex == LexInit /\ [][LexNext]_vars

SpecHdr == HdrInit /\ [][HdrNext]_vars

SpecEnc == EncInit /\ [][EncNext]_vars

SpecExtractDat == ExtractDatInit /\ [][ExtractDatNext]_vars

SpecPalText == PalTextInit /\ [][PalTextNext]_vars

SpecEntries == EntriesInit /\ [][EntriesNext]_vars

SpecCreateSet == CreateSetInit /\ [][CreateSetNext]_vars


(***************************************************************************)
(* Properties of the DAT section codec.                                    *)
(***************************************************************************)
\* The XOR of the bytes of p, bit by bit: bit k is the parity of the number
\* of bytes of p that have bit k set.
XorOfPayload(p) ==
    LET Parity(k) == Cardinality({j \in 1..Len(p) : BitOf(p[j], k) = 1}) % 2
        RECURSIVE Sum(_)
        Sum(k) == IF k = BitsPerByte THEN 0 ELSE (Parity(k) * Pow2(k)) + Sum(k + 1)
    IN  Sum(0)

\* decompress has ended, by returning or by panicking.
DecompressEnded == pc \in {"done", "panic"}

\* C1: for every non-empty buffer b, compressing b with from_data, framing
\* it with write, re-reading it with from_file and calling decompress
\* returns exactly the bytes of b.
C1_RoundTrip ==
    (DecompressEnded /\ Len(data) >= 1) => (pc = "done" /\ output = data)

\* C2: on a well-formed stream for uncomp_size = n >= 1, decompress starts
\* with output index n - 1, writes the indices n - 1, n - 2, ..., 0 from the
\* tokens, and returns only after index 0 has been written.
C2_FillsDownToZero ==
    LET n == sec.uncomp_size
    IN  /\ (pc = "decoding" /\ order = <<>> /\ n >= 1) => i = n - 1
        /\ (DecompressEnded /\ n >= 1) =>
              (pc = "done" /\ order = [k \in 1..n |-> n - k])

\* C3: for a one-byte input [v], from_data emits exactly one token, a short
\* literal that reads back as prefix 00, length field 000, then the 8 bits
\* of v, and decompress reconstructs [v].
C3_OneByte ==
    Len(data) = 1 =>
      /\ pc = "loaded" =>
           LET p1 == read_bits(sec, 1)
               p2 == read_bits(p1.sec, 1)
               l  == read_bits(p2.sec, 3)
               v  == read_bits(l.sec, 8)
           IN  /\ tokens = << [kind |-> "lit_short", at |-> 0, len |-> 1, off |-> 0] >>
               /\ p1.val = 0 /\ p2.val = 0 /\ l.val = 0 /\ v.val = data[1]
      /\ DecompressEnded => (pc = "done" /\ output = data)

\* C4: from_data([], 0) serialises with uncomp_size = 0 and
\* comp_size = 10 + len(payload), and decompress on that section completes
\* normally and returns an empty buffer.
C4_EmptySection ==
    data = <<>> =>
      /\ pc = "written" =>
           /\ read_be32(SubSeq(file, 3, 6)) = 0
           /\ read_be32(SubSeq(file, 7, 10)) = 10 + Len(sec.comp_data)
           /\ SubSeq(file, 11, Len(file)) = sec.comp_data
      /\ DecompressEnded => (pc = "done" /\ output = <<>>)

\* C6: every section produced by from_data, for every input including the
\* empty one, has comp_size = len(payload) + 10, checksum = XOR of the
\* payload, and first_byte_bits = the number of bits actually used in the
\* last payload byte written.
C6_Metadata ==
    pc = "compressed" =>
      /\ sec.comp_size = Len(sec.comp_data) + 10
      /\ sec.checksum = XorOfPayload(sec.comp_data)
      /\ sec.num_bits_in_first_byte = used

\* The header fields and the payload of the stream, as the format lays them out.
StoredFirstByteBits == file[1]
StoredChecksum == file[2]
StoredUncompSize == read_be32(SubSeq(file, 3, 6))
StoredCompSize == read_be32(SubSeq(file, 7, 10))
PayloadPresent ==
    /\ Len(file) >= 10
    /\ StoredCompSize >= 10
    /\ Len(file) >= StoredCompSize
StoredPayload == SubSeq(file, 11, StoredCompSize)

\* C5: from_file reads the 10-byte header and comp_size - 10 payload bytes;
\* it returns "checksum invalid" whenever the XOR of the payload differs from
\* the stored checksum, and a section only when they are equal, so every
\* section it returns satisfies XOR(payload) = checksum.
C5_ChecksumVerified ==
    /\ pc = "checksum invalid" =>
         (PayloadPresent /\ XorOfPayload(StoredPayload) # StoredChecksum)
    /\ (pc # "written" /\ PayloadPresent
          /\ XorOfPayload(StoredPayload) # StoredChecksum) => pc = "checksum invalid"
    /\ pc = "loaded" =>
         /\ PayloadPresent
         /\ sec.comp_data = StoredPayload
         /\ Len(sec.comp_data) = StoredCompSize - 10
         /\ sec.checksum = StoredChecksum
         /\ sec.uncomp_size = StoredUncompSize
         /\ XorOfPayload(sec.comp_data) = sec.checksum

\* A stream whose payload is present but does not match its checksum byte
\* has been refused.
C5_Witness ==
    /\ pc = "checksum invalid"
    /\ Len(StoredPayload) >= 2

\* The position the k-th bit is read from when the reader starts at byte
\* `start`, takes `first` bits from it and 8 from every byte before it.
ExpectedPos(k, start, first) ==
    IF k <= first THEN << start, k - 1 >>
    ELSE << start - 1 - ((k - first - 1) \div 8), (k - first - 1) % 8 >>

\* The reads taken before the byte at index 0 is used up follow ExpectedPos.
ReadsFollow(start, first) ==
    \A k \in 1..Len(reads) :
        k <= first + (8 * start) => reads[k] = ExpectedPos(k, start, first)

\* C7 as stated: the first byte read is the file's last payload byte, which
\* yields first_byte_bits bits (8 when 0 is stored), every byte before it 8.
C7_StartsAtLastByte ==
    pc \in {"loaded", "panic"} =>
        ReadsFollow(Len(StoredPayload) - 1,
                    IF StoredFirstByteBits = 0 THEN 8 ELSE StoredFirstByteBits)

\* C7 as amended: with 1..8 stored, the first byte read is the file's last
\* payload byte and yields that many bits; with 0 stored the reader skips
\* the file's last payload byte and starts at the byte before it, from which
\* it takes 8 bits; every byte after the first yields 8 bits.
C7_SkipsLastByteOnZero ==
    pc \in {"loaded", "panic"} =>
        IF StoredFirstByteBits = 0
        THEN ReadsFollow(Len(StoredPayload) - 2, 8)
        ELSE ReadsFollow(Len(StoredPayload) - 1, StoredFirstByteBits)

\* With 0 stored, the reader has taken 8 bits from the byte before the last
\* and moved one byte further.
C7_Witness ==
    /\ pc = "loaded"
    /\ StoredFirstByteBits = 0
    /\ Len(StoredPayload) = 3
    /\ Len(reads) = 9
    /\ reads[1] = << 1, 0 >>
    /\ reads[9] = << 0, 0 >>

(***************************************************************************)
(* Properties of the planar bitmap engine.                                 *)
(***************************************************************************)
\* The invariant of a planar bitmap: at most 8 planes, a pitch of
\* ceil(width / 8) bytes, and pitch * height * planes bytes of data.
WellFormed(b) ==
    /\ b.planes <= 8
    /\ b.pitch * 8 >= b.width
    /\ (b.pitch - 1) * 8 < b.width
    /\ Len(b.data) = b.pitch * b.height * b.planes

Pixels(b) == (0..(b.width - 1)) \X (0..(b.height - 1))

\* C8: after pset(x, y, v) with (x, y) in range and v < 2^planes,
\* get_packed_pixel(x, y) returns v and get_packed_pixel of every other
\* in-range pixel returns what it returned before.
C8_PsetThenGet ==
    bpc = "set" =>
        /\ get_packed_pixel(bmp, px.x, px.y) = [ok |-> TRUE, val |-> px.value]
        /\ \A q \in Pixels(bmp) \ {<< px.x, px.y >>} :
             get_packed_pixel(bmp, q[1], q[2]) = get_packed_pixel(prev, q[1], q[2])

\* C9: every bitmap a constructor returns (new, from_contiguous_data,
\* from_packed_data, from_swizzle) has planes <= 8, pitch = ceil(width / 8)
\* and exactly pitch * height * planes bytes of data.
C9_ConstructorInvariant ==
    bpc \in {"made", "swizzled"} => WellFormed(bmp)

\* C10: for a bitmap P of 1, 4 or 8 planes that satisfies the bitmap
\* invariant, the scanlines save_as_bpp writes at that depth are read back by
\* from_packed_data into a bitmap whose get_packed_pixel equals P's at every
\* (x, y).
C10_SaveLoadRoundTrip ==
    /\ (bpc = "saved" /\ WellFormed(bmp)) =>
          from_packed_data(packed, bmp.width, bmp.height, bmp.planes).ok
    /\ (bpc = "reread" /\ WellFormed(bmp)) =>
          \A q \in Pixels(bmp) :
             /\ get_packed_pixel(bmp2, q[1], q[2]).ok
             /\ get_packed_pixel(bmp2, q[1], q[2]) = get_packed_pixel(bmp, q[1], q[2])

\* Bit (x, y) of one plane of a bitmap, read from its data.
PlaneBit(b, plane, x, y) ==
    BitOf(b.data[(plane * b.pitch * b.height) + (y * b.pitch) + (x \div 8) + 1],
          7 - (x % 8))

\* C11: on a bitmap that satisfies the bitmap invariant, get_plane_data(plane,
\* x, y, w, h) of a rectangle inside the bitmap returns ceil(w / 8) * h bytes,
\* and bit col of row `row` of the result, counted from the most significant
\* bit of the first byte of the row, is bit (x + col, y + row) of the plane;
\* a row whose w is not a multiple of 8 ends in a partial byte.
C11_PlaneData ==
    (bop = "get_plane_data" /\ WellFormed(bmp)) =>
        LET r == plane_req
            row_len == (r.w + 7) \div 8
        IN  /\ bpc = "plane"
            /\ Len(r.bytes) = row_len * r.h
            /\ \A row \in 0..(r.h - 1), col \in 0..(r.w - 1) :
                 BitOf(r.bytes[(row * row_len) + (col \div 8) + 1], 7 - (col % 8))
                    = PlaneBit(bmp, r.plane, r.x + col, r.y + row)

\* The bytes of one plane of a bitmap.
PlaneBytes(b, plane) ==
    SubSeq(b.data, (plane * b.pitch * b.height) + 1, (plane + 1) * b.pitch * b.height)

\* C12: for a source bitmap that satisfies the bitmap invariant and a
\* plane_map whose entries are all below the source's plane count,
\* from_swizzle returns a bitmap of the same width, height and pitch, with
\* one plane per entry of plane_map, whose i-th plane has the bytes of the
\* source plane plane_map[i].
C12_Swizzle ==
    (/\ bop = "from_swizzle"
     /\ WellFormed(prev)
     /\ \A k \in 1..Len(plane_map) : plane_map[k] < prev.planes) =>
        /\ bpc = "swizzled"
        /\ bmp.width = prev.width
        /\ bmp.height = prev.height
        /\ bmp.pitch = prev.pitch
        /\ bmp.planes = Len(plane_map)
        /\ Len(bmp.data) = bmp.pitch * bmp.height * bmp.planes
        /\ \A k \in 1..Len(plane_map) :
             PlaneBytes(bmp, k - 1) = PlaneBytes(prev, plane_map[k])

\* The three requirements of the last blit.
BlitFits ==
    /\ bmp.planes = blt.before.planes
    /\ blt.x + bmp.width <= blt.before.width
    /\ blt.y + bmp.height <= blt.before.height

\* C13: a blit that meets its three requirements returns, makes destination
\* pixel (dx + sx, dy + sy) equal to source pixel (sx, sy) for every source
\* pixel and leaves the destination pixels outside that rectangle as they
\* were; a blit that does not meet them aborts with the destination
\* untouched.
C13_Blit ==
    bop = "blit" =>
        IF BlitFits
        THEN /\ bpc = "blitted"
             /\ \A q \in Pixels(bmp) :
                  /\ get_packed_pixel(bmp, q[1], q[2]).ok
                  /\ get_packed_pixel(dest, blt.x + q[1], blt.y + q[2])
                        = get_packed_pixel(bmp, q[1], q[2])
             /\ \A q \in Pixels(dest) :
                  (~(/\ q[1] >= blt.x /\ q[1] < blt.x + bmp.width
                     /\ q[2] >= blt.y /\ q[2] < blt.y + bmp.height)) =>
                     get_packed_pixel(dest, q[1], q[2])
                        = get_packed_pixel(blt.before, q[1], q[2])
        ELSE bpc = "panic" /\ dest = blt.before

(***************************************************************************)
(* Properties of the .BMP file writer.                                     *)
(***************************************************************************)
\* The 1-plane 16x1 bitmap with data [0xAA, 0x55] and 2 colours, saved at
\* 1 bit per pixel.
StripeSaved ==
    /\ fpc = "saved"
    /\ image = [width |-> 16, height |-> 1, pitch |-> 2, planes |-> 1,
                data |-> << 170, 85 >>]
    /\ Len(palette) = 2
    /\ bpp = 1

\* The little-endian 32-bit field at byte offset `at` of the file written.
FileField32(at) ==
    bfile[at + 1] + (256 * bfile[at + 2]) + (65536 * bfile[at + 3])
        + (16777216 * bfile[at + 4])

\* C14 as stated: the 1-plane 16x1 bitmap with data [0xAA, 0x55] and a
\* 2-entry palette, saved at 1 bpp, gives a file of 62 bytes whose bfSize
\* field is the number of bytes written.
C14_SixtyTwoBytes ==
    StripeSaved => (Len(bfile) = 62 /\ FileField32(2) = Len(bfile))

\* C14, amended: the bfSize field of every file save_as_bpp writes is the
\* number of bytes written; for the 1-plane 16x1 bitmap with data
\* [0xAA, 0x55] and a 2-entry palette saved at 1 bpp that is 66 bytes: 14 of
\* file header, 40 of info header, 8 of palette (the pixel data start at
\* offset 62) and 4 of scanline.
C14_FileSize ==
    /\ fpc = "saved" => FileField32(2) = Len(bfile)
    /\ StripeSaved =>
          /\ Len(bfile) = 14 + 40 + 8 + 4
          /\ Len(bfile) = 66
          /\ FileField32(14) = 40
          /\ FileField32(10) = 62
          /\ SubSeq(bfile, 63, Len(bfile)) = << 170, 85, 0, 0 >>

C14_Witness == StripeSaved

(***************************************************************************)
(* Properties of palette construction.                                     *)
(***************************************************************************)
\* C15: for every EGA byte each channel of ega_rgb is ((intensity << 1) |
\* channel_low) * 85, with intensity bit 4 and the channel's low bit bit 2
\* (red), 1 (green) or 0 (blue) of the byte, hence one of 0, 85, 170, 255,
\* and 0b00111111 gives (255, 255, 255); for every VGA triple of channels in
\* 0..63 vga_rgb returns each channel times 4 without overflow, and
\* (63, 0, 0) gives (252, 0, 0).
C15_Palette ==
    /\ cpc = "ega" =>
          LET v == colour_in[1]
              intensity == (v \div 16) % 2
          IN  /\ colour.r = ((intensity * 2) + ((v \div 4) % 2)) * 85
              /\ colour.g = ((intensity * 2) + ((v \div 2) % 2)) * 85
              /\ colour.b = ((intensity * 2) + (v % 2)) * 85
              /\ {colour.r, colour.g, colour.b} \subseteq {0, 85, 170, 255}
              /\ v = 63 => colour = [r |-> 255, g |-> 255, b |-> 255]
    /\ (/\ cpc \in {"vga", "panic"}
        /\ \A k \in 1..3 : colour_in[k] <= 63) =>
          /\ cpc = "vga"
          /\ colour = [r |-> 4 * colour_in[1], g |-> 4 * colour_in[2],
                       b |-> 4 * colour_in[3]]
          /\ colour_in = << 63, 0, 0 >> => colour = [r |-> 252, g |-> 0, b |-> 0]

C15_Witness ==
    /\ cpc = "ega"
    /\ colour_in = << 63 >>
    /\ colour = [r |-> 255, g |-> 255, b |-> 255]

(***************************************************************************)
(* Properties of the lexer.                                                *)
(***************************************************************************)
\* C16: the lexer gives one-token lookahead through a one-slot buffer: a
\* token returned by peek_token or pushed back with unget_token is not
\* consumed; the next next_token call returns exactly that token and empties
\* the buffer, so that peek_token can be used again after every token read.
C16_Lookahead ==
    /\ (last.op \in {"peek", "unget"} /\ lpc = "ready") =>
          buffered_token = last.ret
    /\ (last.op = "next" /\ last.before # NoToken) =>
          /\ lpc = "ready"
          /\ last.ret = last.before
          /\ buffered_token = NoToken
    /\ (last.op = "peek" /\ last.prevop = "next") => ~last.refused

\* An identifier character.
IsIdentChar(c) == is_alphanumeric(c) \/ c = "_"

\* The end of the maximal run of identifier characters from an offset on.
RECURSIVE RunEnd(_, _)
RunEnd(t, k) ==
    IF IsIdentChar(peek_char(t, k)) THEN RunEnd(t, k + 1) ELSE k

\* C17: every maximal run of letters, digits and underscores that begins
\* with a letter or an underscore is returned by next_token as one Ident
\* token whose text is exactly that run.
C17_IdentRun ==
    (/\ last.op = "next"
     /\ peek_char(text, last.start) \in Letters \cup {"_"}) =>
        /\ lpc = "ready"
        /\ last.ret = Ident(SubSeq(text, last.start + 1, RunEnd(text, last.start)))
        /\ offset = RunEnd(text, last.start)

\* A character that is a symbol of the script format.
IsSymbolChar(c) ==
    /\ c # NoChar
    /\ ~is_alphanumeric(c)
    /\ c \notin {"_", "-", "\""}
    /\ ~is_whitespace(c)

\* C18: next_token terminates on every text: a call either consumes at
\* least one character and returns a token or fails with a grammar error,
\* or returns None at the end of the input; and every character that is not
\* alphanumeric, '_', '-', '"' or whitespace is returned as a
\* single-character Symbol token.
C18_Terminates ==
    /\ lpc # "hang"
    /\ last.op = "next" =>
          /\ (lpc = "ready" /\ last.ret # NoToken) => offset > last.from
          /\ lpc = "panic" => offset > last.from
          /\ (lpc = "ready" /\ last.ret = NoToken) => offset = Len(text)
          /\ IsSymbolChar(peek_char(text, last.start)) =>
                /\ lpc = "ready"
                /\ last.ret = Symbol(peek_char(text, last.start))
                /\ offset = last.start + 1

\* A text with every run of whitespace outside the string literals replaced
\* by one space, and none at its start or end.
RECURSIVE NormalizeFrom(_, _, _, _, _)
NormalizeFrom(t, k, in_string, gap, out) ==
    IF k > Len(t) THEN out
    ELSE IF in_string
    THEN NormalizeFrom(t, k + 1, t[k] # "\"", FALSE, Append(out, t[k]))
    ELSE IF is_whitespace(t[k])
    THEN NormalizeFrom(t, k + 1, FALSE, out # <<>>, out)
    ELSE NormalizeFrom(t, k + 1, t[k] = "\"", FALSE,
                       (IF gap THEN Append(out, " ") ELSE out) \o << t[k] >>)

Normalize(t) == NormalizeFrom(t, 1, FALSE, FALSE, <<>>)

\* The tokens of repeated next_token calls on a text, and how they end:
\* "end" (None), "panic" or "hang".
RECURSIVE LexFrom(_, _, _, _)
LexFrom(t, k, ln, acc) ==
    LET r == next_token(t, k, ln)
    IN  IF r.res # "ok" THEN [toks |-> acc, res |-> r.res]
        ELSE IF r.tok = NoToken THEN [toks |-> acc, res |-> "end"]
        ELSE LexFrom(t, r.offset, r.line, Append(acc, r.tok))

LexAll(t) == LexFrom(t, 0, 1, <<>>)

IsPrefix(a, b) == Len(a) <= Len(b) /\ SubSeq(b, 1, Len(a)) = a

\* C19: the tokens returned by repeated next_token calls do not depend on
\* the amount of whitespace and line breaks before, after or between the
\* tokens (whitespace inside a string literal belongs to the literal), and
\* after the last token every further next_token call returns None.
C19_Whitespace ==
    /\ ~lookahead =>
          LET n == LexAll(Normalize(text))
          IN  /\ IsPrefix(toks, n.toks)
              /\ (lpc = "ready" /\ seen_none) => (toks = n.toks /\ n.res = "end")
              /\ lpc \in {"panic", "hang"} => (toks = n.toks /\ n.res = lpc)
    /\ (last.op = "next" /\ after_none) =>
          (lpc = "ready" /\ last.ret = NoToken)

C19_Witness ==
    /\ ~lookahead
    /\ lpc = "ready"
    /\ last.op = "next" /\ after_none
    /\ Len(toks) >= 2
    /\ Normalize(text) # text

(***************************************************************************)
(* Properties of the graphics set headers.                                 *)
(***************************************************************************)
\* C20: for every TerrainHeader and every ObjectHeader H, whatever its
\* preview_frame_number, preview_frame_offset, animation_offset and
\* animation_frame_data_size, write produces 8 and 28 little-endian bytes
\* respectively, and read of those bytes succeeds and returns a header equal
\* to H field for field.
C20_HeaderRoundTrip ==
    /\ hpc \in {"terrain_written", "terrain_read"} =>
          /\ Len(hbytes) = 8
          /\ header.gfx_offset = hbytes[3] + (256 * hbytes[4])
    /\ hpc \in {"object_written", "object_read", "panic"} =>
          /\ Len(hbytes) = 28
          /\ header.animation_flags = hbytes[1] + (256 * hbytes[2])
    /\ hpc = "terrain_read" => header2 = header
    /\ hpc \in {"object_read", "panic"} =>
          /\ hpc = "object_read"
          /\ header2 = header

(***************************************************************************)
(* Properties of the encoder's tokens.                                     *)
(***************************************************************************)
\* What the decoder can see of an emitted token: kind, length, raw offset.
ShapeOf(t) == [kind |-> t.kind, len |-> t.len, off |-> t.off]

RECURSIVE LenSum(_, _)
LenSum(toks_, k) == IF k = 0 THEN 0 ELSE LenSum(toks_, k - 1) + toks_[k].len

\* C26: flushing a pending literal run of n bytes, the encoder emits literal
\* tokens in input order whose lengths sum to n, each of at most 265 bytes,
\* with prefix 00 for 1..8 bytes and prefix 111 for 9..265 bytes; for every
\* length L in 9..265 the 8-bit length field holds L - 9 and the decoder
\* reads the token back as a literal of exactly L bytes.
C26_LiteralFlush ==
    /\ wpc # "panic"
    /\ \A k \in 1..Len(ws.tokens) :
          LET t == ws.tokens[k]
          IN  /\ t.at = LenSum(ws.tokens, k - 1)
              /\ t.kind \in {"lit_short", "lit_long"} =>
                    /\ t.len >= 1 /\ t.len <= MaxLiteral
                    /\ t.kind = IF t.len <= ShortLiteralMax THEN "lit_short"
                                ELSE "lit_long"
    /\ wpc = "flushed" => LenSum(ws.tokens, Len(ws.tokens)) = Len(lit.data)
    /\ (/\ wpc \in {"flush", "flushed"}
        /\ ws.tokens # <<>>
        /\ ws.tokens[Len(ws.tokens)].kind \in {"lit_short", "lit_long"}) =>
          LET t == ws.tokens[Len(ws.tokens)]
              b1 == read_bits(ReaderOf(ws), 1)
              b2 == read_bits(b1.sec, IF t.len <= ShortLiteralMax THEN 1 ELSE 2)
              l == read_bits(b2.sec, IF t.len <= ShortLiteralMax THEN 3 ELSE 8)
              v == read_bits(l.sec, 8)
          IN  IF t.len <= ShortLiteralMax
              THEN b1.val = 0 /\ b2.val = 0 /\ l.val + 1 = t.len
                   /\ v.val = lit.data[t.at + t.len]
              ELSE b1.val = 1 /\ b2.val = 3 /\ l.val = t.len - 9
                   /\ l.val + 9 = t.len /\ v.val = lit.data[t.at + t.len]

C26_Witness == wpc = "flushed" /\ Len(ws.tokens) = 1 /\ ws.tokens[1].len = 264

MatchKinds == {"match_2", "match_3", "match_4", "match_long"}

\* The form the stated preference picks among the bests m of a search.
PreferredForm(m) ==
    IF m.longest_len > 4 THEN "match_long"
    ELSE IF m.best_match_4 # -1 THEN "match_4"
    ELSE IF m.best_match_3 # -1 THEN "match_3"
    ELSE IF m.best_match_2 # -1 THEN "match_2"
    ELSE "none"

\* The prefix as the decoder reads it: the first bit, then one or two more.
PrefixRead(sect) ==
    LET b1 == read_bits(sect, 1)
        b2 == read_bits(b1.sec, IF b1.val = 0 THEN 1 ELSE 2)
    IN  << b1.val, b2.val >>

PrefixOf(kind) ==
    CASE kind = "match_long" -> << 1, 2 >>
      [] kind = "match_4" -> << 1, 1 >>
      [] kind = "match_3" -> << 1, 0 >>
      [] kind = "match_2" -> << 0, 1 >>
      [] kind = "lit_long" -> << 1, 3 >>
      [] kind = "lit_short" -> << 0, 0 >>

\* C27: the "Should've found a match" branch of from_data is never taken:
\* whenever have_match is set, one of longest_len > 4, best_match_4,
\* best_match_3, best_match_2 holds where the form is chosen, and the form
\* chosen is the long form (110), else the 4-byte (101), else the 3-byte
\* (100), else the 2-byte form (01).
C27_MatchFormChosen ==
    /\ lit.have_match =>
          /\ PreferredForm(lit.m) # "none"
          /\ ~(lit.last_uncomp_off < lit.i) =>
                LET s1 == EmitMatch(ws, lit.i, lit.m)
                IN  /\ ~s1.panicked
                    /\ s1.tokens[Len(s1.tokens)].kind = PreferredForm(lit.m)
    /\ \A k \in 1..Len(ws.tokens) :
          ws.tokens[k].kind \in MatchKinds =>
              ws.tokens[k].kind =
                  PreferredForm(Search(lit.data, Len(lit.data), ws.tokens[k].at))
    /\ (/\ wpc = "loop"
        /\ ws.tokens # <<>>
        /\ ws.tokens[Len(ws.tokens)].kind \in MatchKinds) =>
          PrefixRead(ReaderOf(ws)) = PrefixOf(ws.tokens[Len(ws.tokens)].kind)

C27_Witness ==
    /\ wpc = "loop"
    /\ ws.tokens # <<>>
    /\ ws.tokens[Len(ws.tokens)].kind = "match_long"
    /\ lit.m.best_match_4 # -1
    /\ lit.m.best_match_2 # -1

\* The width of the offset field of a back-reference.
OffsetBits(kind) ==
    CASE kind = "match_2" -> 8
      [] kind = "match_3" -> 9
      [] kind = "match_4" -> 10
      [] kind = "match_long" -> 12

C23_ChecksumFatal ==
    /\ xpc = "done" => err = "io"
    /\ \A k \in 1..Len(written) :
          /\ written[k].num = k - 1
          /\ k > 1 => written[k - 1].at < written[k].at
          /\ \E r \in from_file(SubSeq(dat, written[k].at + 1, Len(dat))) :
                /\ r.kind = "ok"
                /\ \E d \in decompress(r.sec) : d.ok /\ d.output = written[k].data

\* C22: for every 96-byte palette block P, parsing the Display output of P
\* with Palettes::parse yields a block whose 96 bytes written by
\* Palettes::write equal P.
C22_PaletteRoundTrip ==
    /\ ppc # "panic"
    /\ ppc = "written" => pal_out = raw_pal

\* C28: for every Object directive, with a separate Mask file or with the
\* mask in the right half of a combined BMP, the recorded
\* animation_frame_data_size is (width * frame_height / 8) * 5 for the
\* recorded width, which is the number of bytes appended to the object
\* buffer per frame, so that frame f starts at
\* animation_offset + f * animation_frame_data_size.
C28_FrameDataSize ==
    \A k \in 1..Len(entries) :
        entries[k].kind = "Object" =>
            LET h == object_headers[entries[k].index]
            IN  /\ h.animation_frame_data_size = ((h.width * h.height) \div 8) * 5
                /\ h.animation_offset = entries[k].before
                /\ entries[k].after - entries[k].before
                     = h.frame_end * h.animation_frame_data_size

\* C30: every recorded TerrainHeader describes the bytes appended to the
\* terrain buffer: gfx_offset is the buffer length before the entry,
\* mask_offset = gfx_offset + 4 * (width * height / 8) and the entry takes
\* 5 * (width * height / 8) bytes for the width and height stored in the
\* header, with a separate Mask file and with a combined BMP.
C30_TerrainHeader ==
    \A k \in 1..Len(entries) :
        entries[k].kind = "Terrain" =>
            LET h == terrain_headers[entries[k].index]
                plane_size == (h.width * h.height) \div 8
            IN  /\ h.gfx_offset = entries[k].before
                /\ h.mask_offset = h.gfx_offset + (4 * plane_size)
                /\ entries[k].after - entries[k].before = 5 * plane_size

\* The layout of the files create_graphics_set wrote: the data file is the
\* terrain section followed by the object section, the header file is 16
\* object headers, 64 terrain headers and the 96 palette bytes, the slots
\* past the recorded headers all zero.
CreateLayout ==
    LET data_file == outfiles.data
        header_file == outfiles.header
        n == SectionBytes(data_file)
        ObjectSlot(k) == SubSeq(header_file, ((k - 1) * ObjectHeaderSize) + 1,
                                k * ObjectHeaderSize)
        TerrainSlot(k) ==
            SubSeq(header_file,
                   (NumObjectHeaders * ObjectHeaderSize) + ((k - 1) * TerrainHeaderSize) + 1,
                   (NumObjectHeaders * ObjectHeaderSize) + (k * TerrainHeaderSize))
    IN  /\ n <= Len(data_file)
        /\ SubSeq(data_file, 1, n)
             = write(StructOf(from_data(terrain_data, Len(terrain_data))))
        /\ SubSeq(data_file, n + 1, Len(data_file))
             = write(StructOf(from_data(object_data, Len(object_data))))
        /\ read_be32(SubSeq(data_file, 3, 6)) = Len(terrain_data)
        /\ read_be32(SubSeq(data_file, n + 3, n + 6)) = Len(object_data)
        /\ Len(data_file) = n + SectionBytes(SubSeq(data_file, n + 1, Len(data_file)))
        /\ Len(header_file) = 1056
        /\ \A k \in 1..NumObjectHeaders :
             ObjectSlot(k) = IF k <= Len(object_headers)
                             THEN ObjectHeader_write(object_headers[k])
                             ELSE Zeros(ObjectHeaderSize)
        /\ \A k \in 1..NumTerrainHeaders :
             TerrainSlot(k) = IF k <= Len(terrain_headers)
                              THEN TerrainHeader_write(terrain_headers[k])
                              ELSE Zeros(TerrainHeaderSize)
        /\ SubSeq(header_file, 1056 - 95, 1056) = Palettes_write(pal)

\* C21: for every script, with any number of Terrain and Object directives
\* in any order, create writes its two files, the data file being the
\* terrain section followed by the object section and the header file 16
\* object headers, 64 terrain headers and the 96-byte palette block (1056
\* bytes), unused slots zero-filled.
C21_CreateLayout ==
    /\ gpc # "panic"
    /\ gpc = "done" => CreateLayout

\* C24: for a graphics set produced by create-set, extract-set and then
\* create-set on the script and bitmaps it wrote yield a data file identical
\* to the set's data file, and the same header file.
C24_RoundTrip ==
    /\ gpc # "extract panic"
    /\ round = 2 => gpc # "panic" /\ (gpc = "done" => outfiles = original)

=============================================================================
